---- MODULE Spec2Model ----
(***************************************************************************)
(* A model of the EPA acquisition-and-caching pipeline of                  *)
(* src/epa_data_loader.py:                                                 *)
(*   fetch_epa_data                 the retrying fetcher                   *)
(*   load_pollution_data            the orchestrator over the catalog      *)
(*   load_pollution_data_with_cache the TTL-gated file cache               *)
(* and of the location resolver of src/geocode_counties.py:                *)
(*   geocode_county_census          the remote tier                        *)
(*   geocode_county                 static table, remote tier, fallback    *)
(*   add_coordinates_to_dataframe   the enrichment of a batch of records   *)
(* Each layer is a pure step operator translated from the code; a layer   *)
(* is run step by step in its own specification and folded into one step  *)
(* of the layer that calls it.                                             *)
(*   SpecFetch  one call of fetch_epa_data, one action per attempt         *)
(*   SpecLoad   one call of load_pollution_data, one action per WorkUnit   *)
(*   Spec       sequential invocations of load_pollution_data_with_cache   *)
(*   SpecConc   concurrent invocations sharing the cache directory         *)
(*   SpecGeo    one call of geocode_county or add_coordinates_to_dataframe *)
(* Times are integers: sleeps in milliseconds, the clock in hours.         *)
(***************************************************************************)
EXTENDS Integers, Sequences, FiniteSets, TLC

VARIABLES
    EPA_EMAIL,        \* module global, os.getenv("EPA_EMAIL")
    EPA_API_KEY,      \* module global, os.getenv("EPA_API_KEY")
    fetch,            \* the running call of fetch_epa_data
    load,             \* the running call of load_pollution_data
    catalog,          \* the catalogs the orchestrator walks
    now,              \* datetime.now(), in hours
    cache_dir,        \* the path data_cache
    cache_file,       \* data_cache/epa_pollution_data.csv
    cache_meta_file,  \* data_cache/cache_metadata.json
    proc,             \* the invocations of load_pollution_data_with_cache
    lookup,           \* the running call of geocode_county
    batch             \* the running call of add_coordinates_to_dataframe

envVars   == <<EPA_EMAIL, EPA_API_KEY>>
fetchVars == <<fetch>>
loadVars  == <<load, catalog>>
cacheVars == <<now, cache_dir, cache_file, cache_meta_file, proc>>
geoVars   == <<lookup, batch>>
vars      == <<envVars, fetchVars, loadVars, cacheVars, geoVars>>

(***************************************************************************)
(* Bounds of the model.                                                    *)
(***************************************************************************)
MaxUnits == 4   \* SpecLoad walks every catalog prefix of at most MaxUnits WorkUnits
MaxCacheUnits == 2   \* Spec and SpecConc: WorkUnits of the catalog behind the cache
NumProcs == 3   \* SpecConc: concurrent invocations

(***************************************************************************)
(* Python values.                                                          *)
(***************************************************************************)
NoneStr == "<None>"                       \* os.getenv of an unset variable
CredValues == {NoneStr, "", "set"}
Truthy(s) == s \notin {NoneStr, ""}       \* bool(s) for None and str

NoExc == [kind |-> "None", why |-> "", at |-> -1]
Exc(kind, why, at) == [kind |-> kind, why |-> why, at |-> at]

(***************************************************************************)
(* fetch_epa_data                                                          *)
(***************************************************************************)
max_retries == 3

\* What one requests.get can bring back.
\*   data, data2   200, "Data" holds one / two annual summary rows
\*   baddata       200, "Data" holds a row without the arithmetic_mean field
\*   empty         200, "Data" missing or empty
\*   malformed     200, the JSON body is not an object (data.get raises)
\*   notjson       200, the body is not JSON and response.json() raises a ValueError
\*                 that is no RequestException (requests before 2.27)
\*   badjson       200, the same body where response.json() raises requests'
\*                 JSONDecodeError, a RequestException (requests 2.27 and later)
\*   rate          429
\*   httperr       any other status
\*   transport     requests.get raises a RequestException (timeout, connection)
Responses ==
    {"data", "data2", "baddata", "empty", "malformed", "notjson", "badjson",
     "rate", "httperr", "transport"}
Http200   == {"data", "data2", "baddata", "empty", "malformed", "notjson", "badjson"}
\* the responses after which the call makes no further attempt
EndsCall  == Http200 \ {"badjson"}

NoArgs == [state_code |-> <<>>, county_code |-> <<>>, parameter_code |-> "", year |-> 0]
NoResult == [kind |-> "pending", rows |-> <<>>, exc |-> NoExc]
FetchIdle ==
    [pc |-> "idle", args |-> NoArgs, attempt |-> 0, last_exception |-> NoExc,
     requests |-> 0, sleeps |-> <<>>, history |-> <<>>, result |-> NoResult]

\* pd.DataFrame(data["Data"]): the rows of the response for the requested year.
\* arithmetic_mean is in tenths: 123 is 12.3
ApiRow(args, mean, wellformed) ==
    [year |-> args.year, state_code |-> args.state_code,
     arithmetic_mean |-> mean, wellformed |-> wellformed]

DataFrameOf(args, resp) ==
    CASE resp = "data"    -> <<ApiRow(args, 123, TRUE)>>
      [] resp = "data2"   -> <<ApiRow(args, 123, TRUE), ApiRow(args, 45, TRUE)>>
      [] resp = "baddata" -> <<ApiRow(args, 0, FALSE)>>
      [] OTHER            -> <<>>

Returned(st, rows) ==
    [st EXCEPT !.pc = "returned",
               !.result = [kind |-> IF rows = <<>> THEN "None" ELSE "df",
                           rows |-> rows, exc |-> NoExc]]

Raised(st, e) ==
    [st EXCEPT !.pc = "raised", !.result = [kind |-> "raise", rows |-> <<>>, exc |-> e]]

\* mutant: "and" in place of "or"
CredentialsMissingBoth(email, key) == ~Truthy(email) /\ ~Truthy(key)

\* lines 98 and 215: the credential check
CredentialsMissing(email, key) == ~Truthy(email) \/ ~Truthy(key)

FetchBegin(email, key, args) ==
    LET st == [FetchIdle EXCEPT !.args = args]
    IN  IF CredentialsMissing(email, key)
        THEN Raised(st, Exc("ValueError", "credentials", -1))
        ELSE [st EXCEPT !.pc = "loop"]

\* mutant: a back-off that does not grow
RateLimitWaitFixed(attempt) == 1000

\* mutant: a back-off that grows by a second
RateLimitWaitLinear(attempt) == 1000 * (attempt + 1)

\* lines 131-134: the back-off of a rate-limit response
RateLimitWait(attempt) == 1000 * (2 ^ attempt)

\* lines 144-145: the fixed delay before a retry
RetrySleep(attempt) == IF attempt < max_retries - 1 THEN <<1000>> ELSE <<>>

\* lines 147-151: what follows the loop
AfterLoop(st) ==
    IF st.last_exception # NoExc
    THEN Raised(st, st.last_exception)
    ELSE Returned(st, <<>>)

\* mutant: one attempt more than the ceiling
NextAttemptOffByOne(st) ==
    LET s == [st EXCEPT !.attempt = @ + 1]
    IN  IF s.attempt <= max_retries THEN s ELSE AfterLoop(s)

NextAttempt(st) ==
    LET s == [st EXCEPT !.attempt = @ + 1]
    IN  IF s.attempt < max_retries THEN s ELSE AfterLoop(s)

\* mutant: a rate-limit response clears the recorded exception
FetchAttemptRateClears(st, resp) ==
    LET s == [st EXCEPT !.requests = @ + 1, !.history = Append(@, resp)]
    IN  CASE resp \in {"data", "data2", "baddata"} -> Returned(s, DataFrameOf(s.args, resp))
          [] resp = "empty"     -> Returned(s, <<>>)
          [] resp = "malformed" -> Raised(s, Exc("AttributeError", "body", s.attempt))
          [] resp = "notjson"   -> Raised(s, Exc("ValueError", "body", s.attempt))
          [] resp = "rate" ->
                NextAttempt([s EXCEPT !.last_exception = NoExc,
                                      !.sleeps = Append(@, RateLimitWait(s.attempt))])
          [] OTHER ->
                NextAttempt([s EXCEPT
                    !.last_exception = Exc("RequestException", resp, s.attempt),
                    !.sleeps = @ \o RetrySleep(s.attempt)])

\* lines 119-145: one pass of the loop body, the request included
FetchAttempt(st, resp) ==
    LET s == [st EXCEPT !.requests = @ + 1, !.history = Append(@, resp)]
    IN  CASE resp \in {"data", "data2", "baddata"} -> Returned(s, DataFrameOf(s.args, resp))
          [] resp = "empty"     -> Returned(s, <<>>)
          [] resp = "malformed" -> Raised(s, Exc("AttributeError", "body", s.attempt))
          [] resp = "notjson"   -> Raised(s, Exc("ValueError", "body", s.attempt))
          [] resp = "rate" ->
                NextAttempt([s EXCEPT !.sleeps = Append(@, RateLimitWait(s.attempt))])
          [] OTHER ->
                NextAttempt([s EXCEPT
                    !.last_exception = Exc("RequestException", resp, s.attempt),
                    !.sleeps = @ \o RetrySleep(s.attempt)])

\* The whole call, for a caller: the responses the server would give, in order.
RECURSIVE FetchLoop(_, _)
FetchLoop(st, resps) ==
    IF st.pc # "loop" \/ resps = <<>>
    THEN st
    ELSE FetchLoop(FetchAttempt(st, Head(resps)), Tail(resps))

fetch_epa_data(email, key, args, resps) == FetchLoop(FetchBegin(email, key, args), resps)

\* The response sequences one call can consume: it stops at the first 200 and
\* after max_retries requests.
RECURSIVE ServerRuns(_)
ServerRuns(n) ==
    IF n = 0 THEN {<<>>}
    ELSE {<<r>> : r \in EndsCall}
         \cup {<<r>> \o t : r \in Responses \ EndsCall, t \in ServerRuns(n - 1)}

(***************************************************************************)
(* The catalogs.  Coordinates are in units of 1e-4 degree; a FIPS code is  *)
(* the sequence of its digits, so that "06" and 6 stay different values.   *)
(***************************************************************************)
City(name, state, county, lat, lon) ==
    [city |-> name, state |-> state, county |-> county, latitude |-> lat, longitude |-> lon]

\* lines 15-59; a catalog of the model is a prefix of the table
CITIES_CONFIG ==
    << City("Los Angeles", <<0, 6>>, <<0, 3, 7>>, 340522, -1182437),
       City("New York", <<3, 6>>, <<0, 6, 1>>, 407128, -740060),
       City("Chicago", <<1, 7>>, <<0, 3, 1>>, 418781, -876298),
       City("Houston", <<4, 8>>, <<2, 0, 1>>, 297604, -953698),
       City("Phoenix", <<0, 4>>, <<0, 1, 3>>, 334484, -1120740),
       City("Philadelphia", <<4, 2>>, <<1, 0, 1>>, 399526, -751652),
       City("San Antonio", <<4, 8>>, <<0, 2, 9>>, 294241, -984936),
       City("San Diego", <<0, 6>>, <<0, 7, 3>>, 327157, -1171611),
       City("Dallas", <<4, 8>>, <<1, 1, 3>>, 327767, -967970),
       City("San Jose", <<0, 6>>, <<0, 8, 5>>, 373382, -1218863),
       City("Austin", <<4, 8>>, <<4, 5, 3>>, 302672, -977431),
       City("Jacksonville", <<1, 2>>, <<0, 3, 1>>, 303322, -816557),
       City("Fort Worth", <<4, 8>>, <<4, 3, 9>>, 327555, -973308),
       City("Columbus", <<3, 9>>, <<0, 4, 9>>, 399612, -829988),
       City("Charlotte", <<3, 7>>, <<1, 1, 9>>, 352271, -808431),
       City("San Francisco", <<0, 6>>, <<0, 7, 5>>, 377749, -1224194),
       City("Indianapolis", <<1, 8>>, <<0, 9, 7>>, 397684, -861581),
       City("Seattle", <<5, 3>>, <<0, 3, 3>>, 476062, -1223321),
       City("Denver", <<0, 8>>, <<0, 3, 1>>, 397392, -1049903),
       City("Boston", <<2, 5>>, <<0, 2, 5>>, 423601, -710589),
       City("El Paso", <<4, 8>>, <<1, 4, 1>>, 317619, -1064850),
       City("Detroit", <<2, 6>>, <<1, 6, 3>>, 423314, -830458),
       City("Nashville", <<4, 7>>, <<0, 3, 7>>, 361627, -867816),
       City("Portland", <<4, 1>>, <<0, 5, 1>>, 455152, -1226784),
       City("Las Vegas", <<3, 2>>, <<0, 0, 3>>, 361699, -1151398),
       City("Memphis", <<4, 7>>, <<1, 5, 7>>, 351495, -900490),
       City("Louisville", <<2, 1>>, <<1, 1, 1>>, 382527, -857585),
       City("Baltimore", <<2, 4>>, <<5, 1, 0>>, 392904, -766122),
       City("Milwaukee", <<5, 5>>, <<0, 7, 9>>, 430389, -879065),
       City("Albuquerque", <<3, 5>>, <<0, 0, 1>>, 350844, -1066504),
       City("Tucson", <<0, 4>>, <<0, 1, 9>>, 322226, -1109747),
       City("Fresno", <<0, 6>>, <<0, 1, 9>>, 367378, -1197871),
       City("Sacramento", <<0, 6>>, <<0, 6, 7>>, 385816, -1214944),
       City("Kansas City", <<2, 9>>, <<0, 9, 5>>, 390997, -945786),
       City("Atlanta", <<1, 3>>, <<1, 2, 1>>, 337490, -843880),
       City("Miami", <<1, 2>>, <<0, 8, 6>>, 257617, -801918),
       City("Cleveland", <<3, 9>>, <<0, 3, 5>>, 414993, -816944),
       City("New Orleans", <<2, 2>>, <<0, 7, 1>>, 299511, -900715),
       City("Minneapolis", <<2, 7>>, <<0, 5, 3>>, 449778, -932650),
       City("Tampa", <<1, 2>>, <<0, 5, 7>>, 279506, -824572) >>

\* the keys of POLLUTANT_CODES in insertion order
PollutantNames == <<"PM2.5", "Ozone", "SO2", "NO2", "CO">>

POLLUTANT_CODES ==
    [n \in {"PM2.5", "Ozone", "SO2", "NO2", "CO"} |->
        CASE n = "PM2.5" -> "88101" [] n = "Ozone" -> "44201" [] n = "SO2" -> "42401"
          [] n = "NO2" -> "42602" [] OTHER -> "42101"]

POLLUTANT_UNITS ==
    [n \in {"PM2.5", "Ozone", "SO2", "NO2", "CO"} |->
        CASE n = "PM2.5" -> "ug/m3" [] n = "Ozone" -> "ppm" [] n = "SO2" -> "ppb"
          [] n = "NO2" -> "ppb" [] OTHER -> "ppm"]

\* list(range(a, b, step))
RECURSIVE Range(_, _, _)
Range(a, b, step) == IF a >= b THEN <<>> ELSE <<a>> \o Range(a + step, b, step)

start_year == 1980

\* line 230: datetime.now().year at the time of a run
CurrentYears == {2025, 2026}

\* mutant: the two ranges share the year 2000
YearsToFetchOverlap(current_year) ==
    Range(start_year, 2001, 2) \o Range(2000, current_year + 1, 1)

\* line 234
YearsToFetch(current_year) ==
    Range(start_year, 2000, 2) \o Range(2000, current_year + 1, 1)

Prefix(s, n) == SubSeq(s, 1, IF n < Len(s) THEN n ELSE Len(s))

MakeCatalog(c, p, y, current_year) ==
    [cities |-> Prefix(CITIES_CONFIG, c), pollutants |-> Prefix(PollutantNames, p),
     years |-> Prefix(YearsToFetch(current_year), y)]

CatalogSize(cat) == Len(cat.cities) * Len(cat.pollutants) * Len(cat.years)

\* every catalog prefix of at least one and at most n WorkUnits
Catalogs(n) ==
    {cat \in {MakeCatalog(c, p, y, cy) : c \in 1..n, p \in 1..n, y \in 1..n, cy \in CurrentYears} :
        CatalogSize(cat) <= n}

NoCatalog == [cities |-> <<>>, pollutants |-> <<>>, years |-> <<>>]

(***************************************************************************)
(* load_pollution_data                                                     *)
(***************************************************************************)
StrCell(digits) == [t |-> "str", s |-> digits]

LoadIdle ==
    [pc |-> "idle", ci |-> 1, pi |-> 1, yi |-> 1, all_data |-> <<>>, errors |-> <<>>,
     total_requests |-> 0, completed_requests |-> 0,
     attempted |-> <<>>,   \* the WorkUnits handed to fetch_epa_data, in order
     outcomes |-> <<>>,    \* the FetchOutcome of each of them
     sleeps |-> <<>>,      \* the sleeps of the last iteration
     last |-> FetchIdle,   \* the fetch_epa_data call of the last iteration
     result |-> NoResult]

WorkUnit(cat, ci, pi, yi) ==
    [city |-> cat.cities[ci].city, pollutant |-> cat.pollutants[pi], year |-> cat.years[yi]]

\* lines 254-260: the arguments of the call
FetchArgs(cat, ci, pi, yi) ==
    [state_code |-> cat.cities[ci].state, county_code |-> cat.cities[ci].county,
     parameter_code |-> POLLUTANT_CODES[cat.pollutants[pi]], year |-> cat.years[yi]]

\* lines 215-242
LoadBegin(email, key, cat) ==
    IF CredentialsMissing(email, key)
    THEN [LoadIdle EXCEPT !.pc = "raised",
             !.result = [kind |-> "raise", rows |-> <<>>,
                         exc |-> Exc("ValueError", "credentials", -1)]]
    ELSE [LoadIdle EXCEPT !.pc = IF CatalogSize(cat) = 0 THEN "after" ELSE "loop",
             !.total_requests = CatalogSize(cat)]

\* mutant: latitude and longitude the other way round
NormaliseSwapsCoords(row, city, pollutant) ==
    [year |-> row.year, city |-> city.city, state |-> StrCell(row.state_code),
     latitude |-> city.longitude, longitude |-> city.latitude, pollutant |-> pollutant,
     value |-> row.arithmetic_mean, unit |-> POLLUTANT_UNITS[pollutant]]

\* lines 268-281: one row of the response in the common record shape
Normalise(row, city, pollutant) ==
    [year |-> row.year, city |-> city.city, state |-> StrCell(row.state_code),
     latitude |-> city.latitude, longitude |-> city.longitude, pollutant |-> pollutant,
     value |-> row.arithmetic_mean, unit |-> POLLUTANT_UNITS[pollutant]]

NormaliseFrame(rows, city, pollutant) ==
    [i \in 1..Len(rows) |-> Normalise(rows[i], city, pollutant)]

\* df['arithmetic_mean'] of a frame without that column raises KeyError
NormaliseRaises(rows) == \E i \in 1..Len(rows) : ~rows[i].wellformed

\* lines 285-289
ErrorEntry(wu, e) ==
    [pollutant |-> wu.pollutant, city |-> wu.city, year |-> wu.year, error |-> e.kind]

\* mutant: the exception of one WorkUnit ends the loop
RecordFailureAborts(st, wu, e) ==
    [st EXCEPT !.errors = Append(@, ErrorEntry(wu, e)),
               !.completed_requests = @ + 1,
               !.outcomes = Append(@, "Failure"),
               !.pc = "after"]

\* mutant: a failure discards what was collected
RecordFailureDropsData(st, wu, e) ==
    [st EXCEPT !.errors = Append(@, ErrorEntry(wu, e)),
               !.completed_requests = @ + 1,
               !.outcomes = Append(@, "Failure"),
               !.all_data = <<>>]

RecordFailure(st, wu, e) ==
    [st EXCEPT !.errors = Append(@, ErrorEntry(wu, e)),
               !.completed_requests = @ + 1,
               !.outcomes = Append(@, "Failure")]

\* mutant: a response without data is recorded as an error
RecordReturnEmptyIsError(st, cat, wu, rows) ==
    LET s == [st EXCEPT !.completed_requests = @ + 1]
    IN  IF rows = <<>>
        THEN [s EXCEPT !.errors = Append(@, ErrorEntry(wu, Exc("ValueError", "no data", -1))),
                       !.outcomes = Append(@, "Empty")]
        ELSE IF NormaliseRaises(rows)
        THEN RecordFailure(s, wu, Exc("KeyError", "arithmetic_mean", -1))
        ELSE [s EXCEPT !.all_data = Append(@, NormaliseFrame(rows, cat.cities[st.ci], wu.pollutant)),
                       !.outcomes = Append(@, "Success")]

\* lines 262-283
RecordReturn(st, cat, wu, rows) ==
    LET s == [st EXCEPT !.completed_requests = @ + 1]
    IN  IF rows = <<>>
        THEN [s EXCEPT !.outcomes = Append(@, "Empty")]
        ELSE IF NormaliseRaises(rows)
        THEN RecordFailure(s, wu, Exc("KeyError", "arithmetic_mean", -1))
        ELSE [s EXCEPT !.all_data = Append(@, NormaliseFrame(rows, cat.cities[st.ci], wu.pollutant)),
                       !.outcomes = Append(@, "Success")]

\* mutant: no delay between the requests
NoInterRequestDelay == <<>>

\* line 292
InterRequestDelay == <<300>>

\* mutant: the loop over the cities ends after the first city
AdvanceFirstCityOnly(st, cat) ==
    IF st.yi < Len(cat.years) THEN [st EXCEPT !.yi = @ + 1]
    ELSE IF st.pi < Len(cat.pollutants) THEN [st EXCEPT !.yi = 1, !.pi = @ + 1]
    ELSE [st EXCEPT !.pc = "after"]

\* the loop headers of lines 244, 245 and 249
Advance(st, cat) ==
    IF st.yi < Len(cat.years) THEN [st EXCEPT !.yi = @ + 1]
    ELSE IF st.pi < Len(cat.pollutants) THEN [st EXCEPT !.yi = 1, !.pi = @ + 1]
    ELSE IF st.ci < Len(cat.cities) THEN [st EXCEPT !.yi = 1, !.pi = 1, !.ci = @ + 1]
    ELSE [st EXCEPT !.pc = "after"]

\* lines 250-292: one WorkUnit, with the responses the server gives to its requests
LoadIteration(st, email, key, cat, resps) ==
    LET wu == WorkUnit(cat, st.ci, st.pi, st.yi)
        f  == fetch_epa_data(email, key, FetchArgs(cat, st.ci, st.pi, st.yi), resps)
        s0 == [st EXCEPT !.attempted = Append(@, wu), !.last = f]
        s1 == IF f.result.kind = "raise"
              THEN RecordFailure(s0, wu, f.result.exc)
              ELSE RecordReturn(s0, cat, wu, f.result.rows)
    IN  Advance([s1 EXCEPT !.sleeps = f.sleeps \o InterRequestDelay], cat)

\* mutant: each frame goes in front of the frames before it
RECURSIVE ConcatReversed(_)
ConcatReversed(frames) ==
    IF frames = <<>> THEN <<>> ELSE ConcatReversed(Tail(frames)) \o Head(frames)

\* pd.concat(all_data, ignore_index=True)
RECURSIVE Concat(_)
Concat(frames) == IF frames = <<>> THEN <<>> ELSE Head(frames) \o Concat(Tail(frames))

\* mutant: the hard failure only when every WorkUnit is in the error list
AllUnitsFailed(st) == Len(st.errors) = st.total_requests

\* line 294: the condition of the hard failure
NoDataAcquired(st) == st.all_data = <<>>

\* lines 294-314
LoadEnd(st) ==
    IF NoDataAcquired(st)
    THEN [st EXCEPT !.pc = "raised",
             !.result = [kind |-> "raise", rows |-> <<>>,
                         exc |-> Exc("RuntimeError", "no data", -1)]]
    ELSE [st EXCEPT !.pc = "returned",
             !.result = [kind |-> "df", rows |-> Concat(st.all_data), exc |-> NoExc]]

\* The whole call, for a caller: runs[i] is the server's answer to the i-th WorkUnit.
RECURSIVE LoadLoop(_, _, _, _, _)
LoadLoop(st, email, key, cat, runs) ==
    IF st.pc = "loop" /\ runs # <<>>
    THEN LoadLoop(LoadIteration(st, email, key, cat, Head(runs)), email, key, cat, Tail(runs))
    ELSE IF st.pc = "after" THEN LoadEnd(st) ELSE st

load_pollution_data(email, key, cat, runs) ==
    LoadLoop(LoadBegin(email, key, cat), email, key, cat, runs)

(***************************************************************************)
(* The cache directory.  A file is its state and what a reader would get;  *)
(* gen is history: 0 for what the invocation found, p for what invocation  *)
(* p wrote; complete tells a finished write from one in progress.          *)
(***************************************************************************)
AbsentData == [st |-> "absent", rows |-> <<>>, complete |-> FALSE, gen |-> 0]
AbsentMeta == [st |-> "absent", timestamp |-> 0, record_count |-> 0, years |-> <<>>, gen |-> 0]

\* int("06") = 6: the digits without their leading zeros
RECURSIVE StripZeros(_)
StripZeros(d) == IF Len(d) > 1 /\ Head(d) = 0 THEN StripZeros(Tail(d)) ELSE d

\* df.to_csv(index=False): every cell becomes text
ToCsvRow(r) == [r EXCEPT !.state = [t |-> "text", s |-> r.state.s]]
ToCsv(rows) == [i \in 1..Len(rows) |-> ToCsvRow(rows[i])]

\* pd.read_csv: the type of a column is inferred, a column of digits becomes int64
ReadCsvRow(r) == [r EXCEPT !.state = [t |-> "int", s |-> StripZeros(r.state.s)]]
ReadCsv(rows) == [i \in 1..Len(rows) |-> ReadCsvRow(rows[i])]

HoursPerDay == 24
CacheTTLDays == 365

\* mutant: the age in hours, not in days
cache_age_hours(t, timestamp) == t - timestamp

\* line 171: timedelta.days, the floor of the age in days
cache_age_days(t, timestamp) == (t - timestamp) \div HoursPerDay

\* mutant: the comparison the wrong way round
CacheIsOld(age) == age > CacheTTLDays

\* mutant: a snapshot of exactly 365 days is still served
CacheIsRecentInclusive(age) == age <= CacheTTLDays

\* line 173
CacheIsRecent(age) == age < CacheTTLDays

\* lines 190-194
RECURSIVE MinYear(_)
MinYear(rows) ==
    IF Len(rows) = 1 THEN rows[1].year
    ELSE LET m == MinYear(Tail(rows)) IN IF rows[1].year < m THEN rows[1].year ELSE m
RECURSIVE MaxYear(_)
MaxYear(rows) ==
    IF Len(rows) = 1 THEN rows[1].year
    ELSE LET m == MaxYear(Tail(rows)) IN IF rows[1].year > m THEN rows[1].year ELSE m

\* mutant: the header line is counted
MetadataCountsHeader(t, rows, p) ==
    [st |-> "json", timestamp |-> t, record_count |-> Len(rows) + 1,
     years |-> <<MinYear(rows), MaxYear(rows)>>, gen |-> p]

Metadata(t, rows, p) ==
    [st |-> "json", timestamp |-> t, record_count |-> Len(rows),
     years |-> <<MinYear(rows), MaxYear(rows)>>, gen |-> p]

\* what json.load and fromisoformat accept
MetaParses(m) == m.st = "json"
\* what pd.read_csv accepts: a header at least
DataParses(f) == f.st = "text"

(***************************************************************************)
(* load_pollution_data_with_cache                                          *)
(***************************************************************************)
NoPrev == [kind |-> "none", df |-> <<>>, from_cache |-> FALSE, warned |-> FALSE]

ProcIdle ==
    [pc |-> "idle", again |-> FALSE, df |-> <<>>, from_cache |-> FALSE,
     result |-> "pending", exc |-> NoExc, warned |-> FALSE,
     orchestrator_calls |-> 0, fetch_calls |-> 0, requests |-> 0,
     outcomes |-> <<>>,                          \* the FetchOutcomes of the orchestrator's run
     errors |-> <<>>,                            \* its error list
     invoked_at |-> 0,                           \* the clock at the invocation
     saw_meta |-> AbsentMeta,                    \* what line 168 read
     saw_data |-> AbsentData,                    \* what line 175 read
     age |-> 0,                                  \* line 171
     miss |-> "",                                \* why the cache was not served
     before |-> <<AbsentData, AbsentMeta>>,      \* the snapshot the invocation found
     writes |-> <<0, 0>>,                        \* opens for writing: data, metadata
     prev |-> NoPrev]                            \* how the previous invocation ended

Procs == DOMAIN proc

\* the number of requests.get calls of one run of the orchestrator
RECURSIVE SumLen(_)
SumLen(runs) == IF runs = <<>> THEN 0 ELSE Len(Head(runs)) + SumLen(Tail(runs))

\* what the server answers to a WorkUnit behind the cache
CacheRuns == {<<"data">>, <<"empty">>, <<"httperr", "transport", "httperr">>}

CacheCatalog == MakeCatalog(MaxCacheUnits, 1, 1, 2026)

\* the clock stops at MaxClock hours
MaxClock == 1

\* what p wrote in its last invocation is, for its next one, what it finds
Relabel(f, p) == IF f.gen = p THEN [f EXCEPT !.gen = 0] ELSE f

\* mutant: the exception of the read leaves the function
CacheReadErrorPropagates(st) ==
    [st EXCEPT !.pc = "raised", !.result = "raise", !.exc = Exc("Exception", "cache", -1)]

\* mutant: the exception of the save leaves the function
SaveErrorPropagates(st) ==
    [st EXCEPT !.pc = "raised", !.result = "raise", !.exc = Exc("Exception", "save", -1)]

\* lines 180-181: an exception of the read is caught, fresh data is fetched
CacheReadError(st) == [st EXCEPT !.pc = "acquire", !.miss = "corrupt"]

\* lines 196-199: an exception of the save is caught, the dataset is returned
SaveError(st) == [st EXCEPT !.pc = "returned", !.result = "df", !.warned = TRUE]

BothExist == cache_file.st # "absent" /\ cache_meta_file.st # "absent"

\* lines 159-165: mkdir, then the test that both files exist
Invoke(p) ==
    \* the processes are alike: they are numbered in the order they start
    /\ \/ proc[p].pc = "idle" /\ \A q \in Procs : q < p => proc[q].pc # "idle"
       \/ proc[p].pc \in {"returned", "raised"} /\ proc[p].again
    /\ LET me   == proc[p]
           data == Relabel(cache_file, p)
           meta == Relabel(cache_meta_file, p)
           s    == [ProcIdle EXCEPT !.again = me.again, !.before = <<data, meta>>,
                        !.invoked_at = now,
                        !.prev = [kind |-> me.result, df |-> me.df,
                                  from_cache |-> me.from_cache, warned |-> me.warned]]
       IN  /\ cache_file' = data
           /\ cache_meta_file' = meta
           /\ IF cache_dir = "file"
              THEN /\ proc' = [proc EXCEPT ![p] = [s EXCEPT !.pc = "raised", !.result = "raise",
                                  !.exc = Exc("FileExistsError", "mkdir", -1)]]
                   /\ UNCHANGED cache_dir
              ELSE /\ cache_dir' = "dir"
                   /\ proc' = [proc EXCEPT ![p] = [s EXCEPT
                                  !.pc = IF BothExist THEN "read_meta" ELSE "acquire",
                                  !.miss = IF BothExist THEN "" ELSE "absent"]]
    /\ UNCHANGED <<geoVars, envVars, fetchVars, loadVars, now>>

\* lines 167-173 and 178-181
ReadMeta(p) ==
    /\ proc[p].pc = "read_meta"
    /\ LET m   == cache_meta_file
           age == cache_age_days(now, m.timestamp)
       IN  proc' = [proc EXCEPT ![p] =
                IF ~MetaParses(m)
                THEN CacheReadError([@ EXCEPT !.saw_meta = m])
                ELSE IF CacheIsRecent(age)
                THEN [@ EXCEPT !.pc = "read_csv", !.saw_meta = m, !.age = age]
                ELSE [@ EXCEPT !.pc = "acquire", !.miss = "stale", !.saw_meta = m, !.age = age]]
    /\ UNCHANGED <<geoVars, envVars, fetchVars, loadVars, now, cache_dir, cache_file, cache_meta_file>>

\* mutant: serving the cache renews the timestamp of the metadata
ReadDataTouches(p) ==
    /\ proc[p].pc = "read_csv"
    /\ DataParses(cache_file)
    /\ proc' = [proc EXCEPT ![p] =
            [@ EXCEPT !.pc = "returned", !.result = "df", !.from_cache = TRUE,
                      !.df = ReadCsv(cache_file.rows), !.saw_data = cache_file]]
    /\ cache_meta_file' = [cache_meta_file EXCEPT !.timestamp = now]
    /\ UNCHANGED <<geoVars, envVars, fetchVars, loadVars, now, cache_dir, cache_file>>

\* mutant: the credentials are checked before the cache is served
ReadDataChecksCredentials(p) ==
    /\ proc[p].pc = "read_csv"
    /\ proc' = [proc EXCEPT ![p] =
            IF CredentialsMissing(EPA_EMAIL, EPA_API_KEY)
            THEN [@ EXCEPT !.pc = "raised", !.result = "raise",
                           !.exc = Exc("ValueError", "credentials", -1)]
            ELSE IF DataParses(cache_file)
            THEN [@ EXCEPT !.pc = "returned", !.result = "df", !.from_cache = TRUE,
                           !.df = ReadCsv(cache_file.rows), !.saw_data = cache_file]
            ELSE CacheReadError([@ EXCEPT !.saw_data = cache_file])]
    /\ UNCHANGED <<geoVars, envVars, fetchVars, loadVars, now, cache_dir, cache_file, cache_meta_file>>

\* lines 175-177 and 180-181
ReadData(p) ==
    /\ proc[p].pc = "read_csv"
    /\ proc' = [proc EXCEPT ![p] =
            IF DataParses(cache_file)
            THEN [@ EXCEPT !.pc = "returned", !.result = "df", !.from_cache = TRUE,
                           !.df = ReadCsv(cache_file.rows), !.saw_data = cache_file]
            ELSE CacheReadError([@ EXCEPT !.saw_data = cache_file])]
    /\ UNCHANGED <<geoVars, envVars, fetchVars, loadVars, now, cache_dir, cache_file, cache_meta_file>>

\* mutant: the exception of the orchestrator is swallowed, an empty dataset is returned
OrchestratorErrorSwallowed(st, L) ==
    IF L.result.kind = "raise"
    THEN [st EXCEPT !.pc = "returned", !.result = "df", !.df = <<>>]
    ELSE [st EXCEPT !.pc = "save_csv", !.df = L.result.rows]

\* mutant: after an exception of the orchestrator an empty dataset goes to the save
OrchestratorErrorStillSaves(st, L) ==
    IF L.result.kind = "raise"
    THEN [st EXCEPT !.pc = "save_csv", !.df = <<>>]
    ELSE [st EXCEPT !.pc = "save_csv", !.df = L.result.rows]

\* line 184: df = load_pollution_data(), outside every try: its exception leaves the function
AfterOrchestrator(st, L) ==
    IF L.result.kind = "raise"
    THEN [st EXCEPT !.pc = "raised", !.result = "raise", !.exc = L.result.exc]
    ELSE [st EXCEPT !.pc = "save_csv", !.df = L.result.rows]

\* line 184: the orchestrator runs to its end
Acquire(p) ==
    /\ proc[p].pc = "acquire"
    /\ \E runs \in [1..CatalogSize(catalog) -> CacheRuns] :
        LET L == load_pollution_data(EPA_EMAIL, EPA_API_KEY, catalog, runs)
            n == Len(L.attempted)
        IN  proc' = [proc EXCEPT ![p] =
                AfterOrchestrator(
                    [@ EXCEPT !.orchestrator_calls = @ + 1,
                              !.fetch_calls = n,
                              !.requests = IF n = 0 THEN 0 ELSE SumLen(runs),
                              !.outcomes = L.outcomes,
                              !.errors = L.errors], L)]
    /\ UNCHANGED <<geoVars, envVars, fetchVars, loadVars, now, cache_dir, cache_file, cache_meta_file>>

\* line 188: df.to_csv opens the file for writing, which empties it
SaveCsvOpen(p) ==
    /\ proc[p].pc = "save_csv"
    /\ cache_file' = [st |-> "empty", rows |-> <<>>, complete |-> FALSE, gen |-> p]
    /\ proc' = [proc EXCEPT ![p] = [@ EXCEPT !.pc = "csv_open", !.writes[1] = @ + 1]]
    /\ UNCHANGED <<geoVars, envVars, fetchVars, loadVars, now, cache_dir, cache_meta_file>>

\* line 188: the header and the first k rows have reached the file
SaveCsvPartial(p) ==
    /\ proc[p].pc = "csv_open"
    /\ \E k \in 0..(Len(proc[p].df) - 1) :
        cache_file' = [st |-> "text", rows |-> SubSeq(ToCsv(proc[p].df), 1, k),
                       complete |-> FALSE, gen |-> p]
    /\ proc' = [proc EXCEPT ![p] = [@ EXCEPT !.pc = "csv_partial"]]
    /\ UNCHANGED <<geoVars, envVars, fetchVars, loadVars, now, cache_dir, cache_meta_file>>

\* line 188: to_csv returns
SaveCsvFinish(p) ==
    /\ proc[p].pc \in {"csv_open", "csv_partial"}
    /\ cache_file' = [st |-> "text", rows |-> ToCsv(proc[p].df), complete |-> TRUE, gen |-> p]
    /\ proc' = [proc EXCEPT ![p] = [@ EXCEPT !.pc = "save_meta"]]
    /\ UNCHANGED <<geoVars, envVars, fetchVars, loadVars, now, cache_dir, cache_meta_file>>

\* line 189: open(cache_meta_file, 'w') empties the file
SaveMetaOpen(p) ==
    /\ proc[p].pc = "save_meta"
    /\ cache_meta_file' = [AbsentMeta EXCEPT !.st = "empty", !.gen = p]
    /\ proc' = [proc EXCEPT ![p] = [@ EXCEPT !.pc = "meta_open", !.writes[2] = @ + 1]]
    /\ UNCHANGED <<geoVars, envVars, fetchVars, loadVars, now, cache_dir, cache_file>>

\* lines 190-195 and 199
SaveMetaDump(p) ==
    /\ proc[p].pc = "meta_open"
    /\ cache_meta_file' = Metadata(now, proc[p].df, p)
    /\ proc' = [proc EXCEPT ![p] = [@ EXCEPT !.pc = "returned", !.result = "df"]]
    /\ UNCHANGED <<geoVars, envVars, fetchVars, loadVars, now, cache_dir, cache_file>>

\* lines 196-199: any exception of the save (a failed open, a failed write)
SavePcs == {"save_csv", "csv_open", "csv_partial", "save_meta", "meta_open"}

SaveFails(p) ==
    /\ proc[p].pc \in SavePcs
    /\ proc' = [proc EXCEPT ![p] = SaveError(@)]
    /\ UNCHANGED <<geoVars, envVars, fetchVars, loadVars, now, cache_dir, cache_file, cache_meta_file>>

\* time passes
Tick ==
    /\ now < MaxClock
    /\ now' = now + 1
    /\ UNCHANGED <<geoVars, envVars, fetchVars, loadVars, cache_dir, cache_file, cache_meta_file, proc>>

(***************************************************************************)
(* The location resolver.  A coordinate is a pair in units of 1e-4 degree; *)
(* kind tells a pair of numbers from None and from a pair whose values are *)
(* not numbers (JSON null, a string).                                      *)
(***************************************************************************)
NoCoords == [kind |-> "none", lat |-> 0, lon |-> 0]
Coord(lat, lon) == [kind |-> "pair", lat |-> lat, lon |-> lon]
NullPair == [kind |-> "nullpair", lat |-> 0, lon |-> 0]

\* pd.isna of a cell
NaN == "<NaN>"

\* line 170 and line 217: the continental centre
FallbackCoords == Coord(398283, -985795)

\* lines 192-193: the initial value of the coordinate columns
Placeholder == Coord(0, 0)

\* the head of the table
COUNTY_COORDINATES ==
    [k \in {<<"Loudoun", "VA">>, <<"Fairfax", "VA">>, <<"Santa Clara", "CA">>} |->
        CASE k = <<"Loudoun", "VA">> -> Coord(390438, -774874)
          [] k = <<"Fairfax", "VA">> -> Coord(388462, -773064)
          [] OTHER                   -> Coord(373541, -1219552)]

\* What the one requests.get of the remote tier can bring back.
\*   timeout, transport  requests.get raises
\*   status              a status other than 200
\*   notjson             200, response.json() raises
\*   notobject           200, the body or its "result" is not an object (.get raises)
\*   nomatch             200, "addressMatches" missing or empty
\*   nocoords            200, the first match has no "coordinates" with "y" and "x"
\*   nullcoords          200, the first match's "y" and "x" are not numbers
\*   match               200, the first match has numeric "y" and "x"
GeoResponses ==
    {"timeout", "transport", "status", "notjson", "notobject", "nomatch", "nocoords",
     "nullcoords", "match"}

\* the responses on which the body of the try raises
CensusRaises == {"timeout", "transport", "notjson", "notobject", "nocoords"}

\* the first match of a "match" response: x is the longitude, y the latitude
FirstMatch == [x |-> -1000000, y |-> 350000]

\* a line of the output
Msg(kind, county, state) == [kind |-> kind, county |-> county, state |-> state]

\* mutant: (x, y) returned as (latitude, longitude)
geocode_county_census_xy(county, state, resp) ==
    CASE resp = "match"      -> [coords |-> Coord(FirstMatch.x, FirstMatch.y), log |-> <<>>]
      [] resp = "nullcoords" -> [coords |-> NullPair, log |-> <<>>]
      [] resp \in CensusRaises ->
            [coords |-> NoCoords, log |-> <<Msg("census_failed", county, state)>>]
      [] OTHER               -> [coords |-> NoCoords, log |-> <<>>]

\* lines 116-141
geocode_county_census(county, state, resp) ==
    CASE resp = "match"      -> [coords |-> Coord(FirstMatch.y, FirstMatch.x), log |-> <<>>]
      [] resp = "nullcoords" -> [coords |-> NullPair, log |-> <<>>]
      [] resp \in CensusRaises ->
            [coords |-> NoCoords, log |-> <<Msg("census_failed", county, state)>>]
      [] OTHER               -> [coords |-> NoCoords, log |-> <<>>]

LookupIdle ==
    [pc |-> "idle", county |-> "", state |-> "", use_fallback |-> TRUE,
     requests |-> 0, responses |-> <<>>, log |-> <<>>, tier |-> "",
     coords |-> NoCoords, exc |-> NoExc]

\* mutant: the key with its parts the other way round
StaticKeySwapped(county, state) == <<state, county>>

\* line 157
StaticKey(county, state) == <<county, state>>

\* lines 157-159: the static tier
LookupBegin(county, state, use_fallback) ==
    LET st  == [LookupIdle EXCEPT !.county = county, !.state = state,
                                  !.use_fallback = use_fallback]
        key == StaticKey(county, state)
    IN  IF key \in DOMAIN COUNTY_COORDINATES
        THEN [st EXCEPT !.pc = "returned", !.tier = "static", !.coords = COUNTY_COORDINATES[key]]
        ELSE [st EXCEPT !.pc = "census"]

\* bool(coords) at line 163: None is false, a tuple of two is true
CoordsTruthy(c) == c.kind # "none"

\* lines 162-164: the remote tier
LookupCensus(st, resp) ==
    LET r == geocode_county_census(st.county, st.state, resp)
        s == [st EXCEPT !.requests = @ + 1, !.responses = Append(@, resp), !.log = @ \o r.log]
    IN  IF CoordsTruthy(r.coords)
        THEN [s EXCEPT !.pc = "returned", !.tier = "remote", !.coords = r.coords]
        ELSE [s EXCEPT !.pc = "fallback"]

\* mutant: the flag read the wrong way round
LookupFallbackInverted(st) ==
    IF ~st.use_fallback
    THEN [st EXCEPT !.pc = "returned", !.tier = "fallback", !.coords = FallbackCoords,
                    !.log = Append(@, Msg("warning", st.county, st.state))]
    ELSE [st EXCEPT !.pc = "raised", !.exc = Exc("ValueError", "geocode", -1)]

\* mutant: the fallback tier logs nothing
LookupFallbackSilent(st) ==
    IF st.use_fallback
    THEN [st EXCEPT !.pc = "returned", !.tier = "fallback", !.coords = FallbackCoords]
    ELSE [st EXCEPT !.pc = "raised", !.exc = Exc("ValueError", "geocode", -1)]

\* mutant: the sentinel is returned whatever the flag
LookupFallbackAlways(st) ==
    [st EXCEPT !.pc = "returned", !.tier = "fallback", !.coords = FallbackCoords,
               !.log = Append(@, Msg("warning", st.county, st.state))]

\* lines 167-172: the fallback tier
LookupFallback(st) ==
    IF st.use_fallback
    THEN [st EXCEPT !.pc = "returned", !.tier = "fallback", !.coords = FallbackCoords,
                    !.log = Append(@, Msg("warning", st.county, st.state))]
    ELSE [st EXCEPT !.pc = "raised", !.exc = Exc("ValueError", "geocode", -1)]

\* The whole call, for a caller: resp is what the remote geocoder would answer.
geocode_county(county, state, use_fallback, resp) ==
    LET s0 == LookupBegin(county, state, use_fallback)
        s1 == IF s0.pc = "census" THEN LookupCensus(s0, resp) ELSE s0
    IN  IF s1.pc = "fallback" THEN LookupFallback(s1) ELSE s1

(***************************************************************************)
(* add_coordinates_to_dataframe.  A record of the batch is its county and  *)
(* state cells and its coordinate columns.                                 *)
(***************************************************************************)
BatchIdle ==
    [pc |-> "idle", df |-> <<>>, unique_locations |-> <<>>, i |-> 1,
     location_coords |-> <<>>,   \* the dict, as its items in insertion order
     calls |-> <<>>,             \* the keys geocode_county was called with, in order
     results |-> <<>>,           \* what each of these calls returned
     requests |-> 0, sleeps |-> <<>>, log |-> <<>>]

IsNa(x) == x = NaN

\* mutant: every record is looked up
KeepDuplicates(pairs) == pairs

\* line 198: drop_duplicates keeps the first occurrence of each pair (NaN equals NaN)
RECURSIVE DropDuplicates(_)
DropDuplicates(pairs) ==
    IF pairs = <<>> THEN <<>>
    ELSE LET init == DropDuplicates(SubSeq(pairs, 1, Len(pairs) - 1))
             x    == pairs[Len(pairs)]
         IN  IF \E j \in DOMAIN init : init[j] = x THEN init ELSE Append(init, x)

\* lines 189-199
BatchBegin(rows) ==
    LET u == DropDuplicates(rows)
    IN  [BatchIdle EXCEPT
            !.pc = IF u = <<>> THEN "apply" ELSE "loop",
            !.df = [j \in 1..Len(rows) |->
                        [county |-> rows[j][1], state |-> rows[j][2], coords |-> Placeholder]],
            !.unique_locations = u]

\* location_coords[key] = c
DictSet(items, key, c) ==
    IF \E j \in DOMAIN items : items[j].key = key
    THEN [j \in DOMAIN items |-> IF items[j].key = key THEN [key |-> key, coords |-> c]
                                                       ELSE items[j]]
    ELSE Append(items, [key |-> key, coords |-> c])

\* line 213
GeocodeDelay == <<100>>

\* lines 201-217: one pass of the loop over the unique locations, where r is how
\* the call of geocode_county at line 209 ended
BatchIterationWith(st, r) ==
    LET key == st.unique_locations[st.i]
        nxt == [st EXCEPT !.i = @ + 1,
                          !.pc = IF st.i < Len(st.unique_locations) THEN "loop" ELSE "apply"]
    IN  IF IsNa(key[1]) \/ IsNa(key[2])
        THEN nxt
        ELSE IF r.pc = "raised"
        THEN [nxt EXCEPT !.calls = Append(@, key), !.results = Append(@, NoCoords),
                         !.requests = @ + r.requests,
                         !.log = (@ \o r.log) \o <<Msg("error", key[1], key[2])>>,
                         !.location_coords = DictSet(@, key, FallbackCoords)]
        ELSE [nxt EXCEPT !.calls = Append(@, key), !.results = Append(@, r.coords),
                         !.requests = @ + r.requests,
                         !.log = @ \o r.log,
                         !.location_coords = DictSet(@, key, r.coords),
                         !.sleeps = @ \o GeocodeDelay]

\* line 209 calls geocode_county(county, state): use_fallback has its default
BatchIteration(st, resp) ==
    LET key == st.unique_locations[st.i]
    IN  BatchIterationWith(st, geocode_county(key[1], key[2], TRUE, resp))

\* lines 220-223: the rows whose cells equal the key get its coordinates (NaN equals nothing)
ApplyCoords(row, items) ==
    IF \E j \in DOMAIN items :
            items[j].key = <<row.county, row.state>> /\ ~IsNa(row.county) /\ ~IsNa(row.state)
    THEN [row EXCEPT !.coords =
            items[CHOOSE j \in DOMAIN items : items[j].key = <<row.county, row.state>>].coords]
    ELSE row

\* lines 219-227
BatchEnd(st) ==
    [st EXCEPT !.pc = "returned",
               !.df = [j \in DOMAIN st.df |-> ApplyCoords(st.df[j], st.location_coords)]]

(***************************************************************************)
(* SpecFetch: one call of fetch_epa_data.                                  *)
(***************************************************************************)
NoProcs == [p \in {} |-> ProcIdle]

CacheUntouched ==
    /\ now = 0
    /\ cache_dir = "absent"
    /\ cache_file = AbsentData
    /\ cache_meta_file = AbsentMeta
    /\ proc = NoProcs

GeoUntouched == lookup = LookupIdle /\ batch = BatchIdle

InitFetch ==
    /\ EPA_EMAIL \in CredValues
    /\ EPA_API_KEY \in CredValues
    /\ fetch = FetchIdle
    /\ load = LoadIdle
    /\ catalog = NoCatalog
    /\ CacheUntouched
    /\ GeoUntouched

FetchCall ==
    /\ fetch.pc = "idle"
    /\ load.pc = "idle"
    /\ \E ci \in 1..2, yi \in 1..2 :
        fetch' = FetchBegin(EPA_EMAIL, EPA_API_KEY, FetchArgs(MakeCatalog(2, 1, 2, 2026), ci, 1, yi))
    /\ UNCHANGED <<geoVars, envVars, loadVars, cacheVars>>

FetchStep ==
    /\ fetch.pc = "loop"
    /\ \E resp \in Responses : fetch' = FetchAttempt(fetch, resp)
    /\ UNCHANGED <<geoVars, envVars, loadVars, cacheVars>>

NextFetch == FetchCall \/ FetchStep

SpecFetch == InitFetch /\ [][NextFetch]_vars

\* every request completes or times out (timeout=30 at line 121): a call in its loop
\* takes its next step
SpecFetchFair == SpecFetch /\ WF_vars(FetchStep)

(***************************************************************************)
(* SpecLoad: one call of load_pollution_data.                              *)
(***************************************************************************)
InitLoad ==
    /\ EPA_EMAIL \in CredValues
    /\ EPA_API_KEY \in CredValues
    /\ fetch = FetchIdle
    /\ load = LoadIdle
    /\ catalog \in Catalogs(MaxUnits)
    /\ CacheUntouched
    /\ GeoUntouched

LoadCall ==
    /\ load.pc = "idle"
    /\ fetch.pc = "idle"
    /\ load' = LoadBegin(EPA_EMAIL, EPA_API_KEY, catalog)
    /\ UNCHANGED <<geoVars, envVars, fetchVars, catalog, cacheVars>>

\* what the server answers to a WorkUnit: every outcome of a call, after every
\* kind of retry
LoadRuns ==
    { <<"data">>, <<"data2">>, <<"baddata">>, <<"empty">>, <<"malformed">>,
      <<"rate", "rate", "rate">>, <<"httperr", "httperr", "httperr">>,
      <<"transport", "rate", "rate">>, <<"rate", "transport", "data">> }

LoadStep ==
    /\ load.pc = "loop"
    /\ \E resps \in LoadRuns :
        load' = LoadIteration(load, EPA_EMAIL, EPA_API_KEY, catalog, resps)
    /\ UNCHANGED <<geoVars, envVars, fetchVars, catalog, cacheVars>>

LoadReturn ==
    /\ load.pc = "after"
    /\ load' = LoadEnd(load)
    /\ UNCHANGED <<geoVars, envVars, fetchVars, catalog, cacheVars>>

NextLoad == LoadCall \/ LoadStep \/ LoadReturn

SpecLoad == InitLoad /\ [][NextLoad]_vars

\* SpecCalls: one direct call of either function
SpecCalls == InitLoad /\ [][NextFetch \/ NextLoad]_vars

(***************************************************************************)
(* Spec: invocations of load_pollution_data_with_cache, one after another. *)
(* SpecConc: NumProcs invocations at once on one cache directory.          *)
(***************************************************************************)
\* a snapshot an earlier run saved
PriorRows ==
    ToCsv(load_pollution_data("set", "set", CacheCatalog,
                              [i \in 1..CatalogSize(CacheCatalog) |-> <<"data">>]).result.rows)

PriorData == [st |-> "text", rows |-> PriorRows, complete |-> TRUE, gen |-> 0]
GarbageData == [AbsentData EXCEPT !.st = "garbage"]

\* the caches an invocation can find: no directory, a file in its place, an empty
\* directory, a snapshot of every age, unreadable metadata, a missing or unreadable file
\* ages in hours: an hour ahead of the clock, 364 days, 364 days 23 hours, 365 and 366 days
InitialAges == {-1, 364 * 24, 364 * 24 + 23, 365 * 24, 366 * 24}

PriorMetas ==
    {Metadata(0 - a, PriorRows, 0) : a \in InitialAges}
    \cup {[AbsentMeta EXCEPT !.st = c] : c \in {"garbage", "notimestamp", "badtimestamp"}}

InitialCaches ==
    {<<d, AbsentData, AbsentMeta>> : d \in {"absent", "file", "dir"}}
    \cup {<<"dir", PriorData, m>> : m \in PriorMetas \cup {AbsentMeta}}
    \cup {<<"dir", d, Metadata(0 - 24, PriorRows, 0)>> : d \in {AbsentData, GarbageData}}

InitCache(procs, again, caches, cat) ==
    /\ EPA_EMAIL \in CredValues
    /\ EPA_API_KEY \in CredValues
    /\ fetch = FetchIdle
    /\ load = LoadIdle
    /\ catalog = cat
    /\ now = 0
    /\ \E c \in caches : cache_dir = c[1] /\ cache_file = c[2] /\ cache_meta_file = c[3]
    /\ proc = [p \in procs |-> [ProcIdle EXCEPT !.again = (p \in again)]]
    /\ GeoUntouched

Init == InitCache({1}, {1}, InitialCaches, CacheCatalog)

ProcNext ==
    \/ \E p \in Procs : Invoke(p)
    \/ \E p \in Procs : ReadMeta(p)
    \/ \E p \in Procs : ReadData(p)
    \/ \E p \in Procs : Acquire(p)
    \/ \E p \in Procs : SaveCsvOpen(p)
    \/ \E p \in Procs : SaveCsvPartial(p)
    \/ \E p \in Procs : SaveCsvFinish(p)
    \/ \E p \in Procs : SaveMetaOpen(p)
    \/ \E p \in Procs : SaveMetaDump(p)
    \/ \E p \in Procs : SaveFails(p)

Next == ProcNext \/ Tick

Spec == Init /\ [][Next]_vars

\* the caches NumProcs concurrent invocations start from: none, a stale snapshot,
\* a fresh snapshot, and fresh metadata beside an unreadable data file
ConcCaches ==
    { <<"dir", AbsentData, AbsentMeta>>,
      <<"dir", PriorData, Metadata(0 - 366 * 24, PriorRows, 0)>>,
      <<"dir", PriorData, Metadata(0 - 24, PriorRows, 0)>> }

InitConc ==
    /\ InitCache(1..NumProcs, {}, ConcCaches, MakeCatalog(1, 1, 1, 2026))
    /\ EPA_EMAIL = "set"
    /\ EPA_API_KEY = "set"

SpecConc == InitConc /\ [][ProcNext]_vars

(***************************************************************************)
(* SpecGeo: one call of geocode_county, or of add_coordinates_to_dataframe *)
(* on a batch of at most MaxRecords records.                               *)
(***************************************************************************)
MaxRecords == 3

\* cells of the county and state columns: in the table, not in it, empty, missing
GeoCounties == {"Loudoun", "Santa Clara", "Nowhere", "", NaN}
GeoStates == {"VA", "CA", "ZZ", NaN}

\* the pairs of a batch: in the table, a known name in another region, an unknown
\* name with a malformed region, a missing name, a missing region
GeoPairs ==
    {<<"Loudoun", "VA">>, <<"Loudoun", "CA">>, <<"Nowhere", "ZZ">>, <<NaN, "VA">>,
     <<"Nowhere", NaN>>}

Batches(n) == UNION {[1..k -> GeoPairs] : k \in 0..n}

InitGeo ==
    /\ EPA_EMAIL = "set"
    /\ EPA_API_KEY = "set"
    /\ fetch = FetchIdle
    /\ load = LoadIdle
    /\ catalog = NoCatalog
    /\ CacheUntouched
    /\ GeoUntouched

LookupCall ==
    /\ lookup.pc = "idle" /\ batch.pc = "idle"
    /\ \E county \in GeoCounties, state \in GeoStates, use_fallback \in BOOLEAN :
        lookup' = LookupBegin(county, state, use_fallback)
    /\ UNCHANGED <<envVars, fetchVars, loadVars, cacheVars, batch>>

LookupRemote ==
    /\ lookup.pc = "census"
    /\ \E resp \in GeoResponses : lookup' = LookupCensus(lookup, resp)
    /\ UNCHANGED <<envVars, fetchVars, loadVars, cacheVars, batch>>

LookupLast ==
    /\ lookup.pc = "fallback"
    /\ lookup' = LookupFallback(lookup)
    /\ UNCHANGED <<envVars, fetchVars, loadVars, cacheVars, batch>>

BatchCall ==
    /\ lookup.pc = "idle" /\ batch.pc = "idle"
    /\ \E rows \in Batches(MaxRecords) : batch' = BatchBegin(rows)
    /\ UNCHANGED <<envVars, fetchVars, loadVars, cacheVars, lookup>>

BatchStep ==
    /\ batch.pc = "loop"
    /\ \E resp \in GeoResponses : batch' = BatchIteration(batch, resp)
    /\ UNCHANGED <<envVars, fetchVars, loadVars, cacheVars, lookup>>

BatchReturn ==
    /\ batch.pc = "apply"
    /\ batch' = BatchEnd(batch)
    /\ UNCHANGED <<envVars, fetchVars, loadVars, cacheVars, lookup>>

NextGeo == LookupCall \/ LookupRemote \/ LookupLast \/ BatchCall \/ BatchStep \/ BatchReturn

SpecGeo == InitGeo /\ [][NextGeo]_vars

(***************************************************************************)
(* Vocabulary of the properties.                                           *)
(***************************************************************************)
CredentialsPresent == EPA_EMAIL \notin {NoneStr, ""} /\ EPA_API_KEY \notin {NoneStr, ""}

LoadDone == load.pc \in {"returned", "raised"}

\* the cross-product of the catalog, as a set
CrossProduct ==
    {[city |-> catalog.cities[c].city, pollutant |-> catalog.pollutants[q], year |-> catalog.years[y]] :
        c \in DOMAIN catalog.cities, q \in DOMAIN catalog.pollutants, y \in DOMAIN catalog.years}

Count(seq, x) == Cardinality({i \in DOMAIN seq : seq[i] = x})

\* C1: with credentials present, a finished run of load_pollution_data has handed
\* every WorkUnit of the cross-product to fetch_epa_data exactly once, whatever the
\* fetches did, and no WorkUnit is ever handed over twice.
C1_EveryUnitOnce ==
    CredentialsPresent =>
        /\ \A wu \in CrossProduct : Count(load.attempted, wu) <= 1
        /\ \A i \in DOMAIN load.attempted : load.attempted[i] \in CrossProduct
        /\ LoadDone => \A wu \in CrossProduct : Count(load.attempted, wu) = 1

C1_Witness ==
    /\ load.pc = "returned"
    /\ Len(load.attempted) = 4
    /\ Len(catalog.cities) = 2 /\ Len(catalog.pollutants) = 2
    /\ load.outcomes = <<"Failure", "Empty", "Success", "Failure">>

\* C2: a Failure never aborts the run: the run ends only after every WorkUnit was
\* attempted, and the WorkUnit whose fetch or normalisation raised is the last entry
\* of the error list, tagged with its pollutant, city and year; the error list has one
\* entry per failed WorkUnit.
C2_FailureDoesNotAbort ==
    CredentialsPresent =>
        /\ LoadDone => Len(load.attempted) = Cardinality(CrossProduct)
        /\ Len(load.errors) = Count(load.outcomes, "Failure")
        /\ (load.attempted # <<>>
              /\ (load.last.result.kind = "raise"
                    \/ \E i \in DOMAIN load.last.result.rows : ~load.last.result.rows[i].wellformed))
           => /\ load.errors # <<>>
              /\ LET e  == load.errors[Len(load.errors)]
                     wu == load.attempted[Len(load.attempted)]
                 IN  /\ e.pollutant = wu.pollutant
                     /\ e.city = wu.city
                     /\ e.year = wu.year

C2_Witness ==
    /\ load.pc = "returned"
    /\ Len(load.attempted) = 4
    /\ load.outcomes[1] = "Failure" /\ load.outcomes[4] = "Success"
    /\ load.errors[1].city = catalog.cities[1].city

FetchDone == fetch.pc \in {"returned", "raised"}

\* C4 as stated: a call that used all max_retries attempts without an HTTP 200 ends
\* in Failure, never in a Success or Empty result.
C4_ExhaustionRaises ==
    (FetchDone /\ Len(fetch.history) = max_retries
        /\ \A i \in DOMAIN fetch.history : fetch.history[i] \in {"rate", "httperr", "transport"})
    => fetch.result.kind = "raise"

\* C5: with a credential missing or empty, a call of fetch_epa_data or of
\* load_pollution_data has raised ValueError as its first step: no request, no
\* sleep, no retry, no WorkUnit attempted and nothing recorded in the error list.
C5_MissingCredentialsFailAtOnce ==
    ~CredentialsPresent =>
        /\ fetch.pc # "idle" =>
              /\ fetch.pc = "raised"
              /\ fetch.result.exc.kind = "ValueError"
              /\ fetch.requests = 0 /\ fetch.sleeps = <<>> /\ fetch.attempt = 0
        /\ load.pc # "idle" =>
              /\ load.pc = "raised"
              /\ load.result.exc.kind = "ValueError"
              /\ load.attempted = <<>> /\ load.errors = <<>>
              /\ load.sleeps = <<>> /\ load.last.requests = 0

C5_Witness ==
    /\ EPA_EMAIL = "set" /\ EPA_API_KEY = ""
    /\ load.pc = "raised"
    /\ load.result.exc.kind = "ValueError"

TTLHours == 365 * 24

\* the same measurements, row by row, whatever the type of the state column
SameRecords(df, rows) ==
    /\ Len(df) = Len(rows)
    /\ \A i \in DOMAIN df :
        /\ df[i].year = rows[i].year /\ df[i].city = rows[i].city
        /\ df[i].pollutant = rows[i].pollutant /\ df[i].value = rows[i].value
        /\ df[i].unit = rows[i].unit
        /\ df[i].latitude = rows[i].latitude /\ df[i].longitude = rows[i].longitude

\* C6: an invocation that found a data file and a metadata file that parse, with an
\* age below 365 days, never invokes the orchestrator: no fetch_epa_data call, no
\* request, and it returns the rows of the data file.
C6_FreshCacheServed ==
    \A p \in Procs :
        LET me == proc[p]
            b  == me.before
        IN  (me.pc # "idle" /\ b[1].st = "text" /\ b[2].st = "json"
                /\ now - b[2].timestamp < TTLHours)
            => /\ me.orchestrator_calls = 0 /\ me.fetch_calls = 0 /\ me.requests = 0
               /\ me.pc \in {"read_meta", "read_csv", "returned"}
               /\ me.pc = "returned" =>
                    me.from_cache /\ me.result = "df" /\ SameRecords(me.df, b[1].rows)

C6_Witness ==
    /\ now = 0
    /\ proc[1].pc = "returned" /\ proc[1].from_cache
    /\ proc[1].before[2].timestamp = 0 - (364 * 24 + 23)
    /\ proc[1].df # <<>>
    /\ proc[1].requests = 0

\* the snapshot found is absent, corrupt, or was stale when the invocation began
Unusable(b, t) ==
    \/ b[1].st \in {"absent", "garbage", "empty"}
    \/ b[2].st \in {"absent", "garbage", "notimestamp", "badtimestamp", "empty"}
    \/ b[2].st = "json" /\ t - b[2].timestamp >= TTLHours

\* C7: an invocation that got past mkdir and found the snapshot absent, corrupt or
\* stale never serves the cache, cannot end without having invoked the orchestrator,
\* and raises only what the orchestrator raised: no error of reading the cache files
\* reaches the caller.
C7_BadCacheRefetched ==
    \A p \in Procs :
        LET me == proc[p]
        IN  (me.pc # "idle" /\ cache_dir = "dir" /\ Unusable(me.before, me.invoked_at))
            => /\ ~me.from_cache
               /\ me.pc \in {"returned", "raised"} => me.orchestrator_calls = 1
               /\ me.pc = "raised" => me.exc.kind \in {"ValueError", "RuntimeError"}

C7_Witness ==
    /\ proc[1].pc = "returned"
    /\ proc[1].before[1].st = "garbage" /\ proc[1].before[2].st = "json"
    /\ proc[1].orchestrator_calls = 1
    /\ ~proc[1].warned

\* C8 as stated: when an invocation that acquired data has returned, the cache is the
\* whole new snapshot (its data and its metadata) or the snapshot it found.
C8_SaveIsAtomic ==
    \A p \in Procs :
        LET me == proc[p]
        IN  (me.pc = "returned" /\ ~me.from_cache)
            => \/ /\ cache_file.st = "text" /\ cache_file.complete /\ cache_file.gen = p
                  /\ cache_meta_file.st = "json" /\ cache_meta_file.gen = p
               \/ /\ cache_file = me.before[1]
                  /\ cache_meta_file = me.before[2]

\* C9 as stated: a process that served the cache read a data file whose write was
\* complete and that belongs to the write of the metadata it judged fresh.
C9_ReaderSeesWholeSnapshot ==
    \A p \in Procs :
        LET me == proc[p]
        IN  (me.pc = "returned" /\ me.from_cache)
            => me.saw_data.complete /\ me.saw_data.gen = me.saw_meta.gen

\* C10: once the orchestrator has returned a dataset, no step of the save, failed or
\* not, raises or changes the dataset: the invocation stays in the save or returns
\* that dataset, and a failed write ends it with the dataset and a warning.
C10_SaveFailureNotFatal ==
    [][\A p \in Procs :
        proc[p].pc \in SavePcs =>
            /\ proc'[p].pc \in SavePcs \cup {"returned"}
            /\ proc'[p].df = proc[p].df
            /\ ~proc'[p].from_cache
            /\ proc'[p].pc = "returned" => proc'[p].result = "df"
            /\ proc'[p].warned => proc'[p].pc = "returned"]_vars

C10_Witness ==
    /\ proc[1].pc = "returned" /\ proc[1].warned /\ proc[1].result = "df"
    /\ proc[1].df # <<>>
    /\ cache_file.gen = 1 /\ cache_file.complete
    /\ cache_meta_file.st = "empty"

\* the FetchOutcomes of a run that attempted something are all Failures
AllFailed(outcomes) ==
    outcomes # <<>> /\ \A i \in DOMAIN outcomes : outcomes[i] = "Failure"

\* C11: when every WorkUnit of the orchestrator's run ended in Failure, the invocation
\* of load_pollution_data_with_cache ends by raising the orchestrator's RuntimeError
\* and has opened neither file for writing: the data file and the metadata file are
\* the ones the invocation found, a stale snapshot included.
C11_TotalFailurePersistsNothing ==
    \A p \in Procs :
        LET me == proc[p]
        IN  AllFailed(me.outcomes)
            => /\ me.pc = "raised"
               /\ me.exc.kind = "RuntimeError"
               /\ me.writes = <<0, 0>>
               /\ cache_file = me.before[1]
               /\ cache_meta_file = me.before[2]

C11_Witness ==
    /\ proc[1].pc = "raised"
    /\ AllFailed(proc[1].outcomes) /\ Len(proc[1].errors) = MaxCacheUnits
    /\ proc[1].miss = "stale"
    /\ cache_file.st = "text" /\ cache_file.rows # <<>>
    /\ cache_meta_file.timestamp = 0 - 366 * 24

\* the age, in hours, that the metadata an invocation found had when it was invoked
AgeAtInvocation(me) == me.invoked_at - me.before[2].timestamp

\* C12: an invocation (shorter than a day) that finds a readable snapshot whose
\* timestamp is 366 days old never serves it and ends only after a run of the
\* orchestrator; one that finds a readable snapshot 364 days old never runs the
\* orchestrator and returns the cached dataset.
C12_TTLBoundary ==
    \A p \in Procs :
        LET me == proc[p]
        IN  (me.pc # "idle" /\ cache_dir = "dir" /\ now - me.invoked_at < HoursPerDay
                /\ me.before[1].st = "text" /\ me.before[2].st = "json")
            => /\ AgeAtInvocation(me) = 366 * HoursPerDay
                    => /\ ~me.from_cache
                       /\ me.pc \in {"read_meta", "acquire", "raised"} \cup SavePcs \cup {"returned"}
                       /\ me.pc # "read_meta" => me.miss = "stale"
                       /\ me.pc \in {"returned", "raised"} => me.orchestrator_calls = 1
               /\ AgeAtInvocation(me) = 364 * HoursPerDay
                    => /\ me.orchestrator_calls = 0 /\ me.requests = 0
                       /\ me.pc \in {"read_meta", "read_csv", "returned"}
                       /\ me.pc = "returned" =>
                            me.from_cache /\ SameRecords(me.df, me.before[1].rows)

C12_Witness ==
    /\ now = 1 /\ proc[1].invoked_at = 0
    /\ proc[1].before[2].timestamp = 0 - 364 * 24
    /\ proc[1].pc = "returned" /\ proc[1].from_cache /\ proc[1].age = 364

\* C13: an invocation that found a readable snapshot, still fresh now, opens no file
\* for writing and leaves the data file and the metadata file as it found them, makes
\* no fetch_epa_data call and no request; when the invocation before it served the
\* cache too, it returns the same dataset as that one.
C13_FreshCacheIdempotent ==
    \A p \in Procs :
        LET me == proc[p]
            b  == me.before
        IN  (me.pc # "idle" /\ b[1].st = "text" /\ b[2].st = "json"
                /\ now - b[2].timestamp < TTLHours)
            => /\ cache_file = b[1] /\ cache_meta_file = b[2]
               /\ me.writes = <<0, 0>>
               /\ me.orchestrator_calls = 0 /\ me.fetch_calls = 0 /\ me.requests = 0
               /\ me.pc \in {"read_meta", "read_csv", "returned"}
               /\ (me.pc = "returned" /\ me.prev.kind = "df" /\ me.prev.from_cache)
                    => me.from_cache /\ me.df = me.prev.df

C13_Witness ==
    /\ proc[1].pc = "returned" /\ proc[1].from_cache
    /\ proc[1].prev.kind = "df" /\ proc[1].prev.from_cache
    /\ proc[1].df = proc[1].prev.df /\ proc[1].df # <<>>
    /\ proc[1].invoked_at = 1
    /\ cache_meta_file.timestamp = 0 - 364 * 24

\* the pair of the running lookup is a key of the static table
InStaticTable == <<lookup.county, lookup.state>> \in DOMAIN COUNTY_COORDINATES

\* the remote geocoder gave no first match with coordinates: a timeout, a transport
\* error, another status, a body that does not parse or lacks the fields, no match
RemoteFailures == {"timeout", "transport", "status", "notjson", "notobject", "nomatch", "nocoords"}

\* C14: a call geocode_county(name, region) never raises and ends with a pair, for
\* every name and region and every answer of the remote geocoder; when the pair is
\* not in the static table and the remote geocoder gave no match it ends at the
\* fallback tier.  No lookup of a batch raises either.
C14_ResolverNeverRaises ==
    /\ (lookup.pc # "idle" /\ lookup.use_fallback) =>
            /\ lookup.pc \in {"census", "fallback", "returned"}
            /\ lookup.pc = "returned" =>
                    /\ lookup.coords.kind # "none"
                    /\ lookup.tier \in {"static", "remote", "fallback"}
                    /\ (~InStaticTable /\ lookup.responses[1] \in RemoteFailures)
                            => lookup.tier = "fallback" /\ lookup.coords = FallbackCoords
    /\ \A j \in DOMAIN batch.log : batch.log[j].kind # "error"
    /\ \A j \in DOMAIN batch.results : batch.results[j].kind # "none"

C14_Witness ==
    /\ lookup.pc = "returned" /\ lookup.use_fallback
    /\ lookup.county = "Nowhere" /\ lookup.state = "ZZ"
    /\ lookup.responses = <<"notobject">>
    /\ lookup.tier = "fallback" /\ lookup.coords = FallbackCoords

\* C15: a call of geocode_county for a pair of the static table has returned the
\* coordinate of the table, without a request to the remote geocoder.
C15_StaticTierNoNetwork ==
    (lookup.pc # "idle" /\ InStaticTable) =>
        /\ lookup.pc = "returned"
        /\ lookup.tier = "static"
        /\ lookup.coords = COUNTY_COORDINATES[<<lookup.county, lookup.state>>]
        /\ lookup.requests = 0 /\ lookup.responses = <<>>

C15_Witness ==
    /\ lookup.pc = "returned"
    /\ lookup.county = "Santa Clara" /\ lookup.state = "CA"
    /\ lookup.coords = Coord(373541, -1219552)
    /\ lookup.requests = 0

\* the lookup was for a pair not in the table and the remote geocoder failed as C16 says
RemoteFailedLookup ==
    /\ lookup.pc = "returned" /\ lookup.use_fallback /\ ~InStaticTable
    /\ lookup.responses[1] \in {"timeout", "transport", "nomatch"}

BatchPairs ==
    {<<batch.df[j].county, batch.df[j].state>> : j \in DOMAIN batch.df}
        \ {k \in GeoCounties \X GeoStates : IsNa(k[1]) \/ IsNa(k[2])}

\* C17: add_coordinates_to_dataframe never calls geocode_county twice for one pair;
\* when it returns it has called it once for every distinct (name, region) pair of
\* the batch and for nothing else, and every record carries the coordinate that the
\* one call for its pair returned.
C17_OnceForEachPair ==
    /\ \A k \in BatchPairs : Count(batch.calls, k) <= 1
    /\ \A j \in DOMAIN batch.calls : batch.calls[j] \in BatchPairs
    /\ batch.pc = "returned" =>
        /\ \A k \in BatchPairs : Count(batch.calls, k) = 1
        /\ \A j \in DOMAIN batch.df :
            \A c \in DOMAIN batch.calls :
                batch.calls[c] = <<batch.df[j].county, batch.df[j].state>>
                    => batch.df[j].coords = batch.results[c]

C17_Witness ==
    /\ batch.pc = "returned"
    /\ Len(batch.df) = 3 /\ Len(batch.calls) = 2
    /\ batch.df[1].county = "Nowhere" /\ batch.df[1].state = "ZZ"
    /\ batch.df[3].county = "Nowhere" /\ batch.df[3].state = "ZZ"
    /\ batch.df[1].coords = Coord(350000, -1000000)
    /\ batch.df[3].coords = batch.df[1].coords
    /\ batch.requests = 2

\* the record belongs to the WorkUnit
RowOf(row, wu) == row.city = wu.city /\ row.pollutant = wu.pollutant /\ row.year = wu.year

\* C18: a finished run over more than one WorkUnit in which one WorkUnit ended in
\* Failure and all the others in Success has returned: the dataset holds records of
\* every other WorkUnit and none of the failed one, and the error list is that one
\* failure.
C18_OneFailureAmongSuccesses ==
    (CredentialsPresent /\ LoadDone /\ Len(load.outcomes) > 1
        /\ Count(load.outcomes, "Failure") = 1
        /\ Count(load.outcomes, "Success") = Len(load.outcomes) - 1)
    => /\ load.pc = "returned"
       /\ load.result.kind = "df"
       /\ Len(load.errors) = 1
       /\ \A i \in DOMAIN load.outcomes :
            LET wu == load.attempted[i]
            IN  /\ load.outcomes[i] = "Success"
                    => \E j \in DOMAIN load.result.rows : RowOf(load.result.rows[j], wu)
                /\ load.outcomes[i] = "Failure"
                    => /\ \A j \in DOMAIN load.result.rows : ~RowOf(load.result.rows[j], wu)
                       /\ load.errors[1].city = wu.city
                       /\ load.errors[1].pollutant = wu.pollutant
                       /\ load.errors[1].year = wu.year

C18_Witness ==
    /\ load.pc = "returned"
    /\ load.outcomes = <<"Success", "Success", "Failure">>
    /\ load.errors[1].error = "AttributeError"
    /\ Len(load.result.rows) >= 2

\* the first three responses of the call were rate-limit responses
ThreeRateLimits ==
    Len(fetch.history) >= 3 /\ \A i \in 1..3 : fetch.history[i] = "rate"

\* C19 as stated: after three rate-limit responses the call sleeps 1 s, 2 s and 4 s,
\* makes a fourth request and returns its result.
C19_FourthAttemptSucceeds ==
    (FetchDone /\ ThreeRateLimits)
    => /\ fetch.sleeps = <<1000, 2000, 4000>>
       /\ fetch.requests = 4
       /\ fetch.result.kind = "df"

\* C19 amended: three consecutive rate-limit responses end the call: it has slept 1 s,
\* 2 s and 4 s, makes no fourth request and returns no data; a call that receives two
\* rate-limit responses and then data has slept 1 s and 2 s and returns the data of
\* its third request.
C19_BackoffWithinCeiling ==
    /\ ThreeRateLimits
        => /\ FetchDone
           /\ fetch.requests = max_retries /\ Len(fetch.history) = max_retries
           /\ fetch.sleeps = <<1000, 2000, 4000>>
           /\ fetch.result.kind # "df"
    /\ (Len(fetch.history) = 3 /\ fetch.history[1] = "rate" /\ fetch.history[2] = "rate"
            /\ fetch.history[3] \in {"data", "data2"})
        => /\ fetch.pc = "returned"
           /\ fetch.result.kind = "df"
           /\ fetch.result.rows = DataFrameOf(fetch.args, fetch.history[3])
           /\ fetch.sleeps = <<1000, 2000>>
           /\ fetch.requests = 3

C19_Witness ==
    /\ fetch.history = <<"rate", "rate", "rate">>
    /\ fetch.sleeps = <<1000, 2000, 4000>>
    /\ fetch.requests = 3
    /\ FetchDone

\* the run of the orchestrator had one Success and otherwise only Empty outcomes
OneSuccessRestEmpty(outcomes) ==
    /\ Len(outcomes) >= 2
    /\ Count(outcomes, "Success") = 1
    /\ Count(outcomes, "Empty") = Len(outcomes) - 1

\* C20: when one WorkUnit yields one record of value 12.3 and every other WorkUnit of
\* the catalog is Empty, the dataset is that one record, the error list is empty, the
\* invocation does not raise, and the metadata it writes has record_count = 1.
C20_SuccessAndEmpty ==
    \A p \in Procs :
        LET me == proc[p]
        IN  OneSuccessRestEmpty(me.outcomes)
            => /\ Len(me.df) = 1 /\ me.df[1].value = 123
               /\ me.errors = <<>>
               /\ me.pc # "raised"
               /\ (cache_meta_file.st = "json" /\ cache_meta_file.gen = p)
                    => cache_meta_file.record_count = 1
               /\ (me.pc = "returned" /\ ~me.warned)
                    => /\ cache_meta_file.st = "json" /\ cache_meta_file.gen = p
                       /\ cache_file.rows = ToCsv(me.df)

C20_Witness ==
    /\ proc[1].pc = "returned" /\ ~proc[1].warned
    /\ proc[1].outcomes = <<"Success", "Empty">>
    /\ Len(proc[1].df) = 1 /\ proc[1].df[1].value = 123
    /\ cache_meta_file.record_count = 1 /\ cache_meta_file.gen = 1

\* C21: a call of fetch_epa_data never makes more than max_retries requests, whatever
\* the server answers, and a call that has entered its loop ends (returns or raises)
\* provided each request completes or times out.
C21_FetchTerminates ==
    /\ [](/\ fetch.requests <= max_retries
          /\ fetch.requests = Len(fetch.history)
          /\ fetch.pc = "loop" => fetch.attempt < max_retries /\ fetch.attempt = fetch.requests)
    /\ (fetch.pc = "loop" ~> FetchDone)

C21_Witness ==
    /\ FetchDone
    /\ fetch.requests = max_retries
    /\ fetch.history = <<"transport", "rate", "httperr">>

\* C22: every WorkUnit attempted is followed by the 0.3 s delay, whatever its outcome:
\* the sleeps of an iteration are those of its fetch_epa_data call and then the
\* inter-request delay.
C22_DelayAfterEveryUnit ==
    load.attempted # <<>> =>
        /\ load.sleeps # <<>>
        /\ load.sleeps[Len(load.sleeps)] = 300
        /\ load.sleeps = load.last.sleeps \o <<300>>

C22_Witness ==
    /\ load.outcomes = <<"Success", "Failure", "Empty">>
    /\ load.last.history = <<"empty">>
    /\ load.sleeps = <<300>>

\* C23 as stated: an invocation of load_pollution_data_with_cache raises only the
\* configuration error (ValueError) or the total acquisition failure (RuntimeError).
C23_OnlyTwoErrorsRaised ==
    \A p \in Procs :
        proc[p].pc = "raised" => proc[p].exc.kind \in {"ValueError", "RuntimeError"}

\* C24 as stated: completed_requests never exceeds the number of WorkUnits whose fetch
\* was started, and equals total_requests when the loop has ended.
C24_EachUnitCountedOnce ==
    CredentialsPresent =>
        /\ load.completed_requests <= Len(load.attempted)
        /\ load.pc \in {"after", "returned", "raised"}
                => load.completed_requests = load.total_requests

\* 2^k seconds, in milliseconds, for the attempts of one call
TwoToThe(k) == CASE k = 0 -> 1000 [] k = 1 -> 2000 [] k = 2 -> 4000 [] OTHER -> -1

\* C25: a rate-limit response to the attempt of index k is followed by a sleep of
\* exactly 2^k seconds, and k is the number of requests made before it: the rate-limit
\* delays of a call are taken from 1, 2, 4 in that order.
C25_RateLimitBackoff ==
    [][(fetch.pc = "loop" /\ fetch'.history = Append(fetch.history, "rate"))
        => /\ fetch.attempt = Len(fetch.history)
           /\ fetch'.sleeps = Append(fetch.sleeps, TwoToThe(fetch.attempt))]_vars

C25_Witness ==
    /\ fetch.history = <<"rate", "transport", "rate">>
    /\ fetch.sleeps = <<1000, 1000, 4000>>

\* C26 as stated: a finished call has slept only between attempts, never after its
\* last one: it has fewer sleeps than requests.
C26_NoSleepAfterLastAttempt ==
    (FetchDone /\ fetch.requests >= 1) => Len(fetch.sleeps) <= fetch.requests - 1

\* the last response of the last fetch_epa_data call was a 200 without data
LastWasNoData(st) ==
    st.last.history # <<>> /\ st.last.history[Len(st.last.history)] = "empty"

\* C27: the attempt that receives a 200 without data ends the call with the Empty
\* result, without a sleep and without another request; the WorkUnit of such a call
\* is recorded as Empty and changes neither the collected data nor the error list.
C27_EmptyIsNotAnError ==
    /\ [][(fetch.pc = "loop" /\ fetch'.history = Append(fetch.history, "empty"))
            => /\ fetch'.pc = "returned"
               /\ fetch'.result.kind = "None" /\ fetch'.result.rows = <<>>
               /\ fetch'.sleeps = fetch.sleeps
               /\ fetch'.requests = fetch.requests + 1]_vars
    /\ [][(load.pc = "loop" /\ load'.attempted # load.attempted /\ LastWasNoData(load'))
            => /\ load'.last.pc = "returned" /\ load'.last.result.kind = "None"
               /\ load'.last.requests = Len(load'.last.history)
               /\ load'.outcomes = Append(load.outcomes, "Empty")
               /\ load'.all_data = load.all_data
               /\ load'.errors = load.errors]_vars

C27_Witness ==
    /\ load.pc = "returned"
    /\ load.outcomes = <<"Empty", "Success">>
    /\ load.errors = <<>>
    /\ Len(load.result.rows) = 1
    /\ load.result.rows[1].city = "New York"

\* C28: a call of geocode_county that misses the static table has made one request
\* to the remote geocoder when it leaves the remote tier, and never another; after a
\* timeout, a transport error, another status, no match, or a body or match that lacks
\* the structure read from it, the call goes on to the fallback tier; otherwise it
\* returns the (y, x) of the first match as (latitude, longitude).
C28_RemoteTierSingleRequest ==
    (lookup.pc \in {"fallback", "returned", "raised"} /\ ~InStaticTable)
    => /\ lookup.requests = 1 /\ Len(lookup.responses) = 1
       /\ lookup.responses[1] \in RemoteFailures
            => /\ lookup.tier # "remote"
               /\ lookup.pc = "returned" => lookup.tier = "fallback"
       /\ lookup.responses[1] = "match"
            => /\ lookup.pc = "returned" /\ lookup.tier = "remote"
               /\ lookup.coords = [kind |-> "pair", lat |-> FirstMatch.y, lon |-> FirstMatch.x]
       /\ lookup.responses[1] = "nullcoords"
            => lookup.pc = "returned" /\ lookup.tier = "remote" /\ lookup.coords = NullPair

C28_Witness ==
    /\ lookup.pc = "returned" /\ lookup.tier = "remote"
    /\ lookup.county = "Loudoun" /\ lookup.state = "CA"
    /\ lookup.coords.lat = 350000 /\ lookup.coords.lon = -1000000
    /\ lookup.requests = 1

\* the place of a record's WorkUnit in the enumeration: cities, then pollutants, then years
IndexIn(seq, x) == CHOOSE i \in DOMAIN seq : seq[i] = x
CityNames == [c \in DOMAIN catalog.cities |-> catalog.cities[c].city]
UnitIndex(row) ==
    ((IndexIn(CityNames, row.city) - 1) * Len(catalog.pollutants)
        + (IndexIn(catalog.pollutants, row.pollutant) - 1)) * Len(catalog.years)
    + IndexIn(catalog.years, row.year)

\* C29: in the dataset load_pollution_data returns, the records are in the order of
\* the enumeration of their WorkUnits (cities in catalog order, then pollutants, then
\* years ascending): a record of an earlier WorkUnit never follows one of a later.
C29_RowsInEnumerationOrder ==
    (CredentialsPresent /\ load.pc = "returned") =>
        /\ \A i, j \in DOMAIN load.result.rows :
                i < j => UnitIndex(load.result.rows[i]) <= UnitIndex(load.result.rows[j])
        /\ \A i, j \in DOMAIN catalog.years : i < j => catalog.years[i] < catalog.years[j]
        /\ \A k \in DOMAIN load.attempted :
                UnitIndex(load.attempted[k]) = k

C29_Witness ==
    /\ load.pc = "returned"
    /\ Len(load.result.rows) = 4
    /\ load.result.rows[1].city = "Los Angeles" /\ load.result.rows[1].pollutant = "PM2.5"
    /\ load.result.rows[2].city = "Los Angeles" /\ load.result.rows[2].pollutant = "PM2.5"
    /\ load.result.rows[3].city = "Los Angeles" /\ load.result.rows[3].pollutant = "Ozone"
    /\ load.result.rows[4].city = "New York" /\ load.result.rows[4].pollutant = "Ozone"

\* C30: every record of the dataset load_pollution_data returns has the latitude and
\* longitude of its city in the catalog and the unit of its pollutant, and comes from
\* a WorkUnit whose outcome was Success.
C30_RecordsCarryCatalogData ==
    (CredentialsPresent /\ load.pc = "returned") =>
        \A i \in DOMAIN load.result.rows :
            LET r == load.result.rows[i]
            IN  /\ \E c \in DOMAIN catalog.cities :
                    /\ catalog.cities[c].city = r.city
                    /\ r.latitude = catalog.cities[c].latitude
                    /\ r.longitude = catalog.cities[c].longitude
                /\ r.unit = POLLUTANT_UNITS[r.pollutant]
                /\ \E k \in DOMAIN load.attempted :
                    RowOf(r, load.attempted[k]) /\ load.outcomes[k] = "Success"

C30_Witness ==
    /\ load.pc = "returned"
    /\ load.outcomes = <<"Empty", "Failure", "Success">>
    /\ Len(load.result.rows) = 1
    /\ load.result.rows[1].pollutant = "SO2" /\ load.result.rows[1].unit = "ppb"
    /\ load.result.rows[1].latitude = 340522

\* no element of the sequence occurs twice
NoDuplicates(seq) == \A i, j \in DOMAIN seq : i # j => seq[i] # seq[j]

\* the location codes of the catalog entries
LocationCodes(cities) == [c \in DOMAIN cities |-> <<cities[c].state, cities[c].county>>]

\* every second year from 1980 to 1998, then every year from 2000 to the current year
YearsDescribed(current_year) ==
    {y \in start_year..1998 : y % 2 = 0} \cup 2000..current_year

\* the tables of the source: no two cities share their location codes or their name,
\* no two pollutants their name, and the year list of every current year is the
\* described one, without a duplicate and within 1980..current year
TablesDistinct ==
    /\ NoDuplicates(LocationCodes(CITIES_CONFIG))
    /\ NoDuplicates([c \in DOMAIN CITIES_CONFIG |-> CITIES_CONFIG[c].city])
    /\ NoDuplicates(PollutantNames)
    /\ \A cy \in CurrentYears :
        LET years == YearsToFetch(cy)
        IN  /\ NoDuplicates(years)
            /\ {years[i] : i \in DOMAIN years} = YearsDescribed(cy)
            /\ \A i \in DOMAIN years : years[i] >= start_year /\ years[i] <= cy

\* C31: the WorkUnits handed to fetch_epa_data in one run are pairwise distinct in
\* (location, pollutant, year); the year list (every second year from 1980 to 1998,
\* then every year from 2000 to the current year) has no duplicate and no year outside
\* 1980..current year, and no two entries of the table of cities share their location
\* codes.
C31_WorkUnitsDistinct ==
    /\ NoDuplicates(load.attempted)
    /\ NoDuplicates(LocationCodes(catalog.cities))
    /\ NoDuplicates(catalog.years)
    /\ TablesDistinct

C31_Witness ==
    /\ load.pc = "returned"
    /\ Len(load.attempted) = MaxUnits
    /\ Len(catalog.cities) = 2 /\ Len(catalog.years) = 2
    /\ load.attempted[2].year = 1982
    /\ load.attempted[3].city = "New York"

\* C32: in one invocation of load_pollution_data_with_cache the cache is read before
\* the orchestrator is invoked and before anything is written; each cache file is
\* opened for writing at most once, the data file first, and only when the
\* orchestrator has returned a dataset; an invocation that serves the cache has
\* written neither file and has not invoked the orchestrator.
C32_ReadFirstWriteOnce ==
    \A p \in Procs :
        LET me == proc[p]
        IN  /\ me.pc \in {"read_meta", "read_csv"}
                => me.orchestrator_calls = 0 /\ me.writes = <<0, 0>>
            /\ me.writes[1] <= 1 /\ me.writes[2] <= 1
            /\ me.writes[2] = 1 => me.writes[1] = 1
            /\ me.writes # <<0, 0>>
                => /\ me.orchestrator_calls = 1
                   /\ me.pc \notin {"read_meta", "read_csv", "acquire", "raised"}
                   /\ ~me.from_cache
                   /\ me.df # <<>>
                   /\ \E k \in DOMAIN me.outcomes : me.outcomes[k] = "Success"
            /\ me.from_cache => me.writes = <<0, 0>> /\ me.orchestrator_calls = 0

C32_Witness ==
    /\ proc[1].pc = "returned"
    /\ proc[1].miss = "stale" /\ proc[1].saw_meta.st = "json"
    /\ proc[1].orchestrator_calls = 1
    /\ proc[1].writes = <<1, 1>>
    /\ proc[1].prev.kind = "df" /\ proc[1].prev.from_cache

\* the previous invocation of p acquired a dataset and saved both files without an
\* error, and p now found them as they were saved, within the TTL
FoundOwnSnapshot(me) ==
    /\ me.prev.kind = "df" /\ ~me.prev.from_cache /\ ~me.prev.warned
    /\ me.before[1].st = "text" /\ me.before[1].complete
    /\ me.before[1].rows = ToCsv(me.prev.df)
    /\ \E t \in 0..me.invoked_at : me.before[2] = Metadata(t, me.prev.df, 0)
    /\ now - me.before[2].timestamp < TTLHours

\* C33 as stated: the invocation that follows, within the TTL, an invocation that
\* acquired and saved a dataset serves the cache, does not invoke the orchestrator,
\* and returns the records the acquiring invocation returned.
C33_ReadThrough ==
    \A p \in Procs :
        LET me == proc[p]
        IN  (me.pc # "idle" /\ FoundOwnSnapshot(me))
            => /\ me.orchestrator_calls = 0 /\ me.writes = <<0, 0>>
               /\ me.pc \in {"read_meta", "read_csv", "returned"}
               /\ me.pc = "returned" => me.from_cache /\ me.df = me.prev.df

\* what remains of C33: the hit path is taken and the records agree in every column
\* but state
C33_ReadThroughButState ==
    \A p \in Procs :
        LET me == proc[p]
        IN  (me.pc # "idle" /\ FoundOwnSnapshot(me))
            => /\ me.orchestrator_calls = 0 /\ me.writes = <<0, 0>>
               /\ me.pc \in {"read_meta", "read_csv", "returned"}
               /\ me.pc = "returned" => me.from_cache /\ SameRecords(me.df, me.prev.df)

C33_Reached ==
    /\ proc[1].pc = "returned" /\ proc[1].from_cache /\ FoundOwnSnapshot(proc[1])
    /\ proc[1].df # proc[1].prev.df

\* the attempts of the running call that ended as the set says
AttemptsIn(kinds) == {i \in DOMAIN fetch.history : fetch.history[i] \in kinds}

SetMax(S) == CHOOSE m \in S : \A x \in S : x <= m

\* a non-2xx status other than 429, or a transport exception
NonRateLimitErrors == {"httperr", "transport"}

\* a 200 whose body cannot be processed
UnusableBodies == {"malformed", "notjson", "badjson"}

\* C34 as stated: a finished call has raised exactly when no attempt received HTTP 200
\* and an attempt ended in a non-rate-limit error, and it raised the exception of the
\* most recent such attempt.
C34_RaisesIffNoHttp200 ==
    FetchDone =>
        /\ fetch.pc = "raised"
            <=> AttemptsIn(Http200) = {} /\ AttemptsIn(NonRateLimitErrors) # {}
        /\ fetch.pc = "raised"
            => /\ AttemptsIn(NonRateLimitErrors) # {}
               /\ fetch.result.exc.at = SetMax(AttemptsIn(NonRateLimitErrors)) - 1

\* C34, amended: with the credentials set, a finished call has raised exactly when no
\* attempt returned a result (data or Empty) and an attempt ended in an error that is
\* no rate-limit response: another non-2xx status, a transport exception, or a 200
\* whose body cannot be processed.  It raised the exception of the most recent such
\* attempt, whatever rate-limit responses followed it.  With a credential missing it
\* has raised ValueError without an attempt.
C34_RaisesIffErrorAndNoResult ==
    /\ (CredentialsPresent /\ FetchDone) =>
        LET errs == AttemptsIn(NonRateLimitErrors \cup UnusableBodies)
        IN  /\ fetch.pc = "raised"
                <=> AttemptsIn({"data", "data2", "baddata", "empty"}) = {} /\ errs # {}
            /\ fetch.pc = "raised"
                => LET k == SetMax(errs)
                   IN  /\ fetch.result.exc.at = k - 1
                       /\ fetch.history[k] \in NonRateLimitErrors \cup {"badjson"}
                            => /\ fetch.result.exc.kind = "RequestException"
                               /\ fetch.result.exc.why = fetch.history[k]
                               /\ fetch.result.exc = fetch.last_exception
                       /\ fetch.history[k] \in {"malformed", "notjson"}
                            => /\ fetch.result.exc.kind \in {"AttributeError", "ValueError"}
                               /\ k = Len(fetch.history)
    /\ (~CredentialsPresent /\ FetchDone) =>
        /\ fetch.pc = "raised" /\ fetch.history = <<>>
        /\ fetch.result.exc.kind = "ValueError"

C34_Witness ==
    /\ fetch.pc = "raised"
    /\ fetch.history = <<"httperr", "rate", "rate">>
    /\ fetch.result.exc = [kind |-> "RequestException", why |-> "httperr", at |-> 0]

\* the whole days in h hours, rounded down (timedelta.days)
FloorDays(h) == CHOOSE d \in -2..400 : d * HoursPerDay <= h /\ h < (d + 1) * HoursPerDay

\* the invocation found both files, and a metadata file that parses
FoundMetadata(me) ==
    me.before[1].st # "absent" /\ me.before[2].st # "absent" /\ me.before[2].st = "json"

\* the age line 171 computed is the whole-day age at some moment of the invocation
AgeIsFloor(me) ==
    \E t \in me.invoked_at..now : me.age = FloorDays(t - me.before[2].timestamp)

\* C35 as stated: an invocation that got past mkdir and has ended served the cache
\* exactly when both files existed, the metadata parsed and the whole-day age was
\* below 365.
C35_HitDecision ==
    \A p \in Procs :
        LET me == proc[p]
        IN  (me.pc \in {"returned", "raised"} /\ cache_dir = "dir")
            => (me.from_cache <=> FoundMetadata(me) /\ AgeIsFloor(me) /\ me.age < 365)

\* C35, amended: an invocation that got past mkdir and has ended served the cache
\* exactly when both files existed, the metadata parsed, the whole-day age
\* floor(now - timestamp) was below 365 and the data file could be read; with an age
\* of 365 days or more it invoked the orchestrator, and with a readable data file
\* and an age of 364 days 23 hours, or a timestamp in the future, it served the cache.
C35_HitDecisionReadable ==
    \A p \in Procs :
        LET me == proc[p]
        IN  (me.pc \in {"returned", "raised"} /\ cache_dir = "dir")
            => /\ me.from_cache
                    <=> /\ FoundMetadata(me) /\ AgeIsFloor(me) /\ me.age < 365
                        /\ me.before[1].st = "text"
               /\ FoundMetadata(me) =>
                    /\ AgeIsFloor(me)
                    /\ me.age >= 365 => ~me.from_cache /\ me.orchestrator_calls = 1
                    /\ (me.before[1].st = "text" /\ me.age <= 364) => me.from_cache
                    /\ (me.before[1].st = "text" /\ me.before[2].timestamp > now)
                            => me.from_cache /\ me.age < 0

C35_Witness ==
    /\ proc[1].pc = "returned" /\ proc[1].from_cache
    /\ proc[1].before[2].timestamp > now
    /\ proc[1].age = -1
    /\ proc[1].orchestrator_calls = 0

\* C36: with a credential missing, an invocation that found a readable snapshot with
\* an age below 365 days returns the cached dataset and raises nothing; the
\* ValueError of the credentials is raised by the orchestrator alone, in an
\* invocation that found the cache absent, corrupt or stale, and every such
\* invocation that got past mkdir ends with it.
C36_CacheServedWithoutCredentials ==
    ~CredentialsPresent =>
        \A p \in Procs :
            LET me == proc[p]
            IN  (me.pc \in {"returned", "raised"} /\ cache_dir = "dir") =>
                    /\ (FoundMetadata(me) /\ me.before[1].st = "text" /\ me.age < CacheTTLDays)
                        => /\ me.pc = "returned" /\ me.from_cache /\ me.exc = NoExc
                           /\ me.df = ReadCsv(me.before[1].rows)
                           /\ me.orchestrator_calls = 0
                    /\ me.pc = "raised"
                        => /\ me.exc = Exc("ValueError", "credentials", -1)
                           /\ me.orchestrator_calls = 1
                           /\ me.miss \in {"absent", "corrupt", "stale"}
                           /\ me.fetch_calls = 0 /\ me.writes = <<0, 0>>
                    /\ me.orchestrator_calls = 1 => me.pc = "raised"

C36_Witness ==
    /\ EPA_API_KEY = "" /\ EPA_EMAIL = "set"
    /\ proc[1].pc = "returned" /\ proc[1].from_cache
    /\ Len(proc[1].df) = 2
    /\ proc[1].age = 364

\* the coordinates the three tiers can give
TierCoords ==
    {COUNTY_COORDINATES[k] : k \in DOMAIN COUNTY_COORDINATES}
        \cup {Coord(FirstMatch.y, FirstMatch.x), FallbackCoords}

\* C37 as stated: the frame add_coordinates_to_dataframe returns has a row for every
\* input row, and every row, the rows with a missing name or region included, has
\* coordinates of one of the three tiers, none the initial placeholder.
C37_EveryRowResolved ==
    batch.pc = "returned" =>
        \A j \in DOMAIN batch.df :
            /\ batch.df[j].coords # Placeholder
            /\ batch.df[j].coords \in TierCoords

\* the entry of the key in the dict
ItemOf(items, key) == items[CHOOSE j \in DOMAIN items : items[j].key = key]

\* C38: a call of geocode_county with use_fallback false has raised exactly when the
\* pair is not in the static table and the remote tier returned None, and then it
\* raised ValueError and returned nothing, the sentinel least of all; with
\* use_fallback true it never raises.  In add_coordinates_to_dataframe a lookup that
\* raises, at whatever pair of the loop, leaves the sentinel in the dict for that
\* pair, keeps the entries of the other pairs and goes on to the next pair.
C38_RaiseOnlyWithoutFallback ==
    /\ (lookup.pc \in {"returned", "raised"} /\ ~lookup.use_fallback) =>
        /\ lookup.pc = "raised"
            <=> ~InStaticTable /\ lookup.responses[1] \in RemoteFailures
        /\ lookup.pc = "raised"
            => /\ lookup.exc = Exc("ValueError", "geocode", -1)
               /\ lookup.coords = NoCoords /\ lookup.tier = ""
               /\ \A k \in DOMAIN lookup.log : lookup.log[k].kind # "warning"
    /\ lookup.pc = "raised" => ~lookup.use_fallback
    /\ (batch.pc = "loop" /\ ~IsNa(batch.unique_locations[batch.i][1])
            /\ ~IsNa(batch.unique_locations[batch.i][2])) =>
        LET key == batch.unique_locations[batch.i]
        IN  \A resp \in GeoResponses :
                LET r == geocode_county(key[1], key[2], FALSE, resp)
                    s == BatchIterationWith(batch, r)
                IN  r.pc = "raised" =>
                        /\ ItemOf(s.location_coords, key).coords = FallbackCoords
                        /\ \A j \in DOMAIN batch.location_coords :
                                s.location_coords[j] = batch.location_coords[j]
                        /\ s.i = batch.i + 1
                        /\ s.pc = IF batch.i < Len(batch.unique_locations) THEN "loop" ELSE "apply"
                        /\ s.calls = Append(batch.calls, key)
                        /\ s.log[Len(s.log)] = Msg("error", key[1], key[2])

C38_Witness ==
    /\ lookup.pc = "raised" /\ ~lookup.use_fallback
    /\ lookup.county = "Nowhere" /\ lookup.state = "ZZ"
    /\ lookup.responses = <<"nomatch">>
    /\ lookup.exc.kind = "ValueError"

====
